---------------------------- MODULE Spec2Model ----------------------------
(***************************************************************************)
(* aishield: reversible source obfuscation (minify.py) and its reversal    *)
(* (unminify.py), with the mapping store (mapping.json) that links them.   *)
(*                                                                         *)
(* Text is a sequence of one-character strings.  A Python dict is a        *)
(* sequence of <<key, value>> pairs in insertion order (the order decides  *)
(* the JSON that is written, which value a reversed dict keeps, and the    *)
(* order in which equally long tokens are substituted).                    *)
(***************************************************************************)
EXTENDS Integers, Sequences, FiniteSets, TLC

(***************************************************************************)
(* Bounds of the model.                                                    *)
(***************************************************************************)
\* statements per code section in the single-run specification
MaxStmts == 2
\* obfuscation runs in the store-lifecycle specification
MaxRuns == 3
\* exceptions met by the runs of one behaviour
MaxFaults == 1
\* parts of a content that can go through before process_content raises
MaxParts == 2
\* entries of the languages/ directory that LanguageRegistry visits
MaxModules == 3

(***************************************************************************)
(* Characters and text.                                                    *)
(***************************************************************************)
LowerSeq ==
  <<"a","b","c","d","e","f","g","h","i","j","k","l","m",
    "n","o","p","q","r","s","t","u","v","w","x","y","z">>
UpperSeq ==
  <<"A","B","C","D","E","F","G","H","I","J","K","L","M",
    "N","O","P","Q","R","S","T","U","V","W","X","Y","Z">>
DigitSeq == <<"0","1","2","3","4","5","6","7","8","9">>

Range(s) == {s[i] : i \in 1..Len(s)}
Lowers == Range(LowerSeq)
Uppers == Range(UpperSeq)
Digits == Range(DigitSeq)
\* \w of Python's re for the ASCII characters the model uses
WordChars == Lowers \cup Uppers \cup Digits \cup {"_"}
Whitespace == {" ", "\n", "\t"}

IsWordChar(c) == c \in WordChars

\* str.lower() on one character
LowerChar(c) ==
  IF c \in Uppers
    THEN LowerSeq[CHOOSE i \in 1..26 : UpperSeq[i] = c]
    ELSE c
\* str.lower()
Lower(s) == [i \in 1..Len(s) |-> LowerChar(s[i])]

RECURSIVE Flatten(_)
\* ''.join(parts)
Flatten(parts) ==
  IF parts = <<>> THEN <<>> ELSE Head(parts) \o Flatten(Tail(parts))

\* text[i] with i counted from 1, "" outside the text
At(s, i) == IF i >= 1 /\ i <= Len(s) THEN s[i] ELSE ""

\* s[a:b] of Python: the characters at 0-based offsets a .. b-1
Slice(s, a, b) == SubSeq(s, a + 1, b)

\* whether sub occurs in s at (1-based) position i
OccursAt(s, sub, i) ==
  /\ i >= 1
  /\ i + Len(sub) - 1 <= Len(s)
  /\ \A j \in 1..Len(sub) : s[i + j - 1] = sub[j]

\* sub in s
Contains(s, sub) == \E i \in 1..(Len(s) - Len(sub) + 1) : OccursAt(s, sub, i)

\* s.endswith(suf)
EndsWith(s, suf) ==
  /\ Len(suf) <= Len(s)
  /\ OccursAt(s, suf, Len(s) - Len(suf) + 1)

\* s.startswith(pre)
StartsWith(s, pre) == OccursAt(s, pre, 1)

RECURSIVE DecimalDigits(_)
DecimalDigits(n) ==
  IF n < 10 THEN <<DigitSeq[n + 1]>>
  ELSE DecimalDigits(n \div 10) \o <<DigitSeq[(n % 10) + 1]>>
\* str(n) for n >= 0
Decimal(n) == DecimalDigits(n)

(***************************************************************************)
(* Python dicts as insertion-ordered sequences of <<key, value>>.          *)
(***************************************************************************)
MapHas(m, k) == \E i \in 1..Len(m) : m[i][1] = k
MapGet(m, k) == m[CHOOSE i \in 1..Len(m) : m[i][1] = k][2]
\* m[k] = v: a new key is appended, an old key keeps its place
MapPut(m, k, v) ==
  IF MapHas(m, k)
    THEN [i \in 1..Len(m) |-> IF m[i][1] = k THEN <<k, v>> ELSE m[i]]
    ELSE Append(m, <<k, v>>)
MapKeys(m) == {m[i][1] : i \in 1..Len(m)}
\* the dict as a set of entries, its order forgotten
MapEntries(m) == {m[i] : i \in 1..Len(m)}

RECURSIVE MapFromPairs(_)
\* {k: v for k, v in pairs}: a dict comprehension over pairs
MapFromPairs(pairs) ==
  IF pairs = <<>> THEN <<>>
  ELSE LET last == pairs[Len(pairs)]
       IN  MapPut(MapFromPairs(SubSeq(pairs, 1, Len(pairs) - 1)),
                  last[1], last[2])

(***************************************************************************)
(* minify.py: LanguageRegistry                                             *)
(***************************************************************************)
\* the ALIASES of a module: a list of items, or a value that cannot be
\* iterated; an item is a string or a value that cannot be a dict key
Alias(value) == [hashable |-> TRUE, value |-> value]
UnhashableAlias == [hashable |-> FALSE, value |-> ""]
AliasList(items) == [iterable |-> TRUE, items |-> items]
NoneAliases == [iterable |-> FALSE, items |-> <<>>]

\* an entry of languages/: is_dir, whether its name starts with "_",
\* whether it holds adapter.py, whether executing adapter.py raises, and
\* the ADAPTER_CLASS, LANGUAGE_NAME ("" when not declared) and ALIASES
\* that adapter.py declares
Entry(is_dir, underscore, adapter_file, exec_raises, class, name, aliases) ==
  [is_dir |-> is_dir, underscore |-> underscore,
   adapter_file |-> adapter_file, exec_raises |-> exec_raises,
   ADAPTER_CLASS |-> class, LANGUAGE_NAME |-> name, ALIASES |-> aliases]

\* languages/csharp and languages/javascript of the repository
CSharpModule ==
  Entry(TRUE, FALSE, TRUE, FALSE, "CSharpAdapter", "csharp",
        AliasList(<<Alias("cs"), Alias("c#"), Alias("dotnet")>>))
JavaScriptModule ==
  Entry(TRUE, FALSE, TRUE, FALSE, "JavaScriptAdapter", "javascript",
        AliasList(<<Alias("js"), Alias("node"), Alias("typescript")>>))
\* a file in languages/, a directory such as __pycache__, and a directory
\* without adapter.py
PlainFile == Entry(FALSE, FALSE, FALSE, FALSE, "", "", AliasList(<<>>))
UnderscoreDir == Entry(TRUE, TRUE, TRUE, FALSE, "", "", AliasList(<<>>))
EmptyDir == Entry(TRUE, FALSE, FALSE, FALSE, "", "", AliasList(<<>>))
\* a module whose adapter.py raises when executed (a missing import)
RaisingModule == Entry(TRUE, FALSE, TRUE, TRUE, "", "", AliasList(<<>>))
\* a module that declares no LANGUAGE_NAME
UndeclaredModule ==
  Entry(TRUE, FALSE, TRUE, FALSE, "GoAdapter", "", AliasList(<<>>))
\* a module with ALIASES = None
NoneAliasesModule ==
  Entry(TRUE, FALSE, TRUE, FALSE, "FSharpAdapter", "fsharp", NoneAliases)
\* a module for csharp whose second alias is a list
ListAliasModule ==
  Entry(TRUE, FALSE, TRUE, FALSE, "MonoAdapter", "csharp",
        AliasList(<<Alias("mono"), UnhashableAlias>>))

Entries ==
  {CSharpModule, JavaScriptModule, PlainFile, UnderscoreDir, EmptyDir,
   RaisingModule, UndeclaredModule, NoneAliasesModule, ListAliasModule}

\* the entries of a languages/ directory in the order of
\* sorted(iterdir()): at most MaxModules entries, no two alike
Directories ==
  UNION {{d \in [1..n -> Entries] :
            \A i \in 1..n : \A j \in 1..n : d[i] = d[j] => i = j}
         : n \in 0..MaxModules}

\* self.adapters = {}, self.aliases = {}; failed: the directories that
\* "Failed to load" was printed for
EmptyRegistry == [adapters |-> <<>>, aliases |-> <<>>, failed |-> {}]

\* lambda cd=config_dir: adapter_class(cd)
AdapterFactory(config_dir, adapter_class) ==
  [config_dir |-> config_dir, adapter_class |-> adapter_class]

RECURSIVE SetAliases(_, _, _)
\* for alias in aliases: self.aliases[alias] = language_name, up to the
\* first item that cannot be a key
SetAliases(aliases, items, language_name) ==
  IF items = <<>> THEN [aliases |-> aliases, raised |-> FALSE]
  ELSE IF ~Head(items).hashable THEN [aliases |-> aliases, raised |-> TRUE]
  ELSE SetAliases(MapPut(aliases, Head(items).value, language_name),
                  Tail(items), language_name)

\* LanguageRegistry._load_module(module_dir, adapter_file): the registry it
\* leaves and whether it raised
load_module(reg, module_dir, m) ==
  IF m.exec_raises THEN [reg |-> reg, raised |-> TRUE]
  ELSE IF m.ADAPTER_CLASS # "" /\ m.LANGUAGE_NAME # ""
    THEN LET adapters == MapPut(reg.adapters, m.LANGUAGE_NAME,
                                AdapterFactory(module_dir, m.ADAPTER_CLASS))
             set == SetAliases(reg.aliases, m.ALIASES.items, m.LANGUAGE_NAME)
         IN  IF ~m.ALIASES.iterable
               THEN [reg |-> [reg EXCEPT !.adapters = adapters],
                     raised |-> TRUE]
               ELSE [reg |-> [reg EXCEPT !.adapters = adapters,
                                         !.aliases = set.aliases],
                     raised |-> set.raised]
    ELSE [reg |-> reg, raised |-> FALSE]

\* one turn of the loop of _load_modules, for the entry at place module_dir
VisitEntry(reg, module_dir, m) ==
  IF ~m.is_dir \/ m.underscore THEN reg
  ELSE IF ~m.adapter_file THEN reg
  ELSE LET r == load_module(reg, module_dir, m)
       IN  IF r.raised
             THEN [r.reg EXCEPT !.failed = @ \cup {module_dir}]
             ELSE r.reg

RECURSIVE load_modules(_, _)
\* LanguageRegistry._load_modules() over the first n entries of dir
load_modules(dir, n) ==
  IF n = 0 THEN EmptyRegistry
  ELSE VisitEntry(load_modules(dir, n - 1), n, dir[n])

\* LanguageRegistry(modules_dir)
LanguageRegistry(dir) == load_modules(dir, Len(dir))

\* the languages/ directory of the repository
RepositoryLanguages == <<CSharpModule, JavaScriptModule>>

(***************************************************************************)
(* Languages and their adapters.                                           *)
(***************************************************************************)
Langs == {"csharp", "javascript"}

CSharpSuffixes ==
  << <<"A","s","y","n","c">>,
     <<"C","o","n","t","r","o","l","l","e","r">>,
     <<"S","e","r","v","i","c","e">>,
     <<"R","e","p","o","s","i","t","o","r","y">>,
     <<"F","a","c","t","o","r","y">>,
     <<"P","r","o","v","i","d","e","r">>,
     <<"H","a","n","d","l","e","r">>,
     <<"A","t","t","r","i","b","u","t","e">>,
     <<"E","x","c","e","p","t","i","o","n">>,
     <<"B","u","i","l","d","e","r">>,
     <<"M","a","n","a","g","e","r">>,
     <<"H","e","l","p","e","r">>,
     <<"V","a","l","i","d","a","t","o","r">>,
     <<"C","o","n","v","e","r","t","e","r">>,
     <<"M","a","p","p","e","r">>,
     <<"F","i","l","t","e","r">>,
     <<"M","i","d","d","l","e","w","a","r","e">>,
     <<"O","p","t","i","o","n","s">>,
     <<"S","e","t","t","i","n","g","s">>,
     <<"C","o","n","t","e","x","t">>,
     <<"M","o","d","e","l">>,
     <<"V","i","e","w","M","o","d","e","l">>,
     <<"D","t","o">>,
     <<"E","n","t","i","t","y">>,
     <<"C","o","n","f","i","g","u","r","a","t","i","o","n">> >>

JavaScriptSuffixes ==
  << <<"A","s","y","n","c">>,
     <<"C","a","l","l","b","a","c","k">>,
     <<"C","o","n","t","r","o","l","l","e","r">>,
     <<"S","e","r","v","i","c","e">>,
     <<"H","a","n","d","l","e","r">>,
     <<"M","a","n","a","g","e","r">>,
     <<"P","r","o","v","i","d","e","r">>,
     <<"F","a","c","t","o","r","y">>,
     <<"R","e","p","o","s","i","t","o","r","y">>,
     <<"V","a","l","i","d","a","t","o","r">>,
     <<"E","r","r","o","r">>,
     <<"E","x","c","e","p","t","i","o","n">>,
     <<"D","a","t","e">>,
     <<"T","i","m","e">>,
     <<"T","y","p","e">>,
     <<"R","e","c","o","r","d">>,
     <<"C","o","n","f","i","g">>,
     <<"O","p","t","i","o","n","s">>,
     <<"P","a","r","a","m","s">>,
     <<"P","r","o","p","s">>,
     <<"S","t","a","t","e">>,
     <<"R","e","s","u","l","t">>,
     <<"R","e","s","p","o","n","s","e">>,
     <<"R","e","q","u","e","s","t">>,
     <<"Q","u","e","r","y">>,
     <<"F","i","l","t","e","r">>,
     <<"M","a","p","p","e","r">>,
     <<"C","o","n","v","e","r","t","e","r">> >>

\* adapter.get_preserve_suffixes(), in declared order
get_preserve_suffixes(lang) ==
  IF lang = "csharp" THEN CSharpSuffixes ELSE JavaScriptSuffixes

CSharpExclude ==
  << <<"d","a","t","a">>,
     <<"v","a","l","u","e">>,
     <<"r","e","s","u","l","t">>,
     <<"e","r","r","o","r">>,
     <<"m","e","s","s","a","g","e">>,
     <<"m","o","d","e","l">>,
     <<"e","n","t","i","t","y">> >>

JavaScriptExclude ==
  << <<"d","a","t","a">>,
     <<"v","a","l","u","e">>,
     <<"r","e","s","u","l","t">>,
     <<"e","r","r","o","r">>,
     <<"m","e","s","s","a","g","e">>,
     <<"p","r","o","p","s">>,
     <<"s","t","a","t","e">> >>

\* adapter.get_exclude_patterns()
get_exclude_patterns(lang) ==
  IF lang = "csharp" THEN CSharpExclude ELSE JavaScriptExclude

CSharpKeep ==
  << <<"s","y","s","t","e","m">>,
     <<"m","i","c","r","o","s","o","f","t">>,
     <<"n","e","w","t","o","n","s","o","f","t">>,
     <<"a","u","t","o","m","a","p","p","e","r">>,
     <<"s","e","r","i","l","o","g">>,
     <<"p","o","l","l","y">>,
     <<"f","l","u","e","n","t","v","a","l","i","d","a","t","i","o","n">>,
     <<"m","e","d","i","a","t","r">> >>

JavaScriptKeep ==
  << <<"r","e","a","c","t">>,
     <<"e","x","p","r","e","s","s">>,
     <<"l","o","d","a","s","h">>,
     <<"a","x","i","o","s">>,
     <<"m","o","m","e","n","t">>,
     <<"u","u","i","d">>,
     <<"d","o","t","e","n","v">> >>

\* the keep_namespaces / keep_patterns list of an adapter
KeepList(lang) == IF lang = "csharp" THEN CSharpKeep ELSE JavaScriptKeep

\* adapter.get_string_node_types()
get_string_node_types(lang) ==
  IF lang = "csharp"
    THEN {"string_literal", "interpolated_string_text", "verbatim_string_literal"}
    ELSE {"string", "template_string"}

\* adapter.get_comment_node_types()
get_comment_node_types(lang) == {"comment"}

\* adapter.get_import_node_types()
get_import_node_types(lang) ==
  IF lang = "csharp" THEN {"using_directive"}
  ELSE {"import_statement", "export_statement"}

\* the words of preserve_language.json of each language directory and of
\* the shared preserve_custom.json: configuration read by
\* load_preserve_words.  "Task" is a framework name the C# list keeps.
PreserveLanguageFile(lang) ==
  IF lang = "csharp" THEN { <<"T","a","s","k">> } ELSE {}
PreserveCustomFile == {}

\* adapter.load_preserve_words(): the union of both files
load_preserve_words(lang) == PreserveLanguageFile(lang) \cup PreserveCustomFile

(***************************************************************************)
(* Tokens.  hashlib.md5 is tabulated for the words and string contents of  *)
(* the model: Md5Word(w) is int(md5(w).hexdigest(), 16) mod 39996 and      *)
(* Md5String(s) is int(md5("str_" + s).hexdigest(), 16) mod 399996, which  *)
(* keep the residues mod 4 and mod 9999 (mod 99999) the code takes.        *)
(***************************************************************************)
Md5Word(w) ==
  CASE w = <<"g","e","t">> -> 23627
    [] w = <<"U","s","e","r">> -> 5665
    [] w = <<"D","a","t","a">> -> 24306
    [] w = <<"V","i","e","w">> -> 23021
    [] w = <<"A","s","y","n","c">> -> 24586
    [] w = <<"T","a","s","k">> -> 25043
    [] w = <<"F","o","o">> -> 14521
    [] w = <<"S","y","s","t","e","m">> -> 35306
    [] w = <<"R","e","a","c","t">> -> 31652
    [] w = <<"x">> -> 21822
    [] w = <<"a">> -> 31177
    [] w = <<"e","g">> -> 17423
    [] w = <<"i","r">> -> 17423
    [] w = <<"d","a","t","a">> -> 26384

Md5String(s) ==
  CASE s = <<"S","u","b","m","i","t">> -> 319194
    [] s = <<"\\","n">> -> 192601
    [] s = <<".","/","b">> -> 177038
    [] s = <<"r","e","a","c","t">> -> 360411
    [] s = <<"n","e","w","b">> -> 7424

WordPrefixes == <<"T", "C", "D", "E">>
StringPrefixes == <<"E", "S", "H", "L">>
WordModulus == 9999
StringModulus == 99999

\* ObfuscationEngine.deterministic_hash(text)
deterministic_hash(text) ==
  LET hash_int == Md5Word(text)
      prefix == WordPrefixes[(hash_int % Len(WordPrefixes)) + 1]
      num == hash_int % WordModulus
  IN  <<prefix>> \o Decimal(num)

\* ObfuscationEngine.obfuscate_string_literal(string_value)
obfuscate_string_literal(string_value) ==
  LET hash_int == Md5String(string_value)
      prefix == StringPrefixes[(hash_int % Len(StringPrefixes)) + 1]
      num == hash_int % StringModulus
  IN  <<prefix>> \o Decimal(num)

(***************************************************************************)
(* split_camelcase: two substitutions, then str.split().                   *)
(***************************************************************************)
RECURSIVE SpaceLowerUpper(_, _)
\* re.sub(r'([a-z])([A-Z])', r'\1 \2', s): scanning from position i
SpaceLowerUpper(s, i) ==
  IF i > Len(s) THEN <<>>
  ELSE IF s[i] \in Lowers /\ At(s, i + 1) \in Uppers
    THEN <<s[i], " ", s[i + 1]>> \o SpaceLowerUpper(s, i + 2)
    ELSE <<s[i]>> \o SpaceLowerUpper(s, i + 1)

RECURSIVE UpperRunEnd(_, _)
\* the last position of the run of upper-case letters that starts at i
UpperRunEnd(s, i) ==
  IF At(s, i + 1) \in Uppers THEN UpperRunEnd(s, i + 1) ELSE i

RECURSIVE SpaceAcronym(_, _)
\* re.sub(r'([A-Z]+)([A-Z][a-z])', r'\1 \2', s): scanning from position i.
\* A match starts at an upper-case letter; the greedy [A-Z]+ gives back
\* one letter so that the run's last letter and the lower-case letter
\* after it make the second group.
SpaceAcronym(s, i) ==
  IF i > Len(s) THEN <<>>
  ELSE IF s[i] \in Uppers
    THEN LET e == UpperRunEnd(s, i)
         IN  IF e > i /\ At(s, e + 1) \in Lowers
               THEN SubSeq(s, i, e - 1) \o <<" ">> \o <<s[e], s[e + 1]>>
                      \o SpaceAcronym(s, e + 2)
               ELSE SubSeq(s, i, e) \o SpaceAcronym(s, e + 1)
    ELSE <<s[i]>> \o SpaceAcronym(s, i + 1)

RECURSIVE SplitWhitespace(_, _)
\* str.split(): the maximal runs of non-whitespace; cur is the run so far
SplitWhitespace(s, cur) ==
  IF s = <<>> THEN (IF cur = <<>> THEN <<>> ELSE <<cur>>)
  ELSE IF Head(s) \in Whitespace
    THEN (IF cur = <<>> THEN <<>> ELSE <<cur>>) \o SplitWhitespace(Tail(s), <<>>)
    ELSE SplitWhitespace(Tail(s), Append(cur, Head(s)))

\* ObfuscationEngine.split_camelcase(name)
split_camelcase(name) ==
  SplitWhitespace(SpaceAcronym(SpaceLowerUpper(name, 1), 1), <<>>)

(***************************************************************************)
(* obfuscate_composite                                                     *)
(***************************************************************************)
\* ObfuscationEngine.should_preserve(word)
should_preserve(lang, word) == word \in load_preserve_words(lang)

\* the loop over preserve_suffixes: the first declared suffix the name ends
\* with and is longer than; <<>> when there is none (preserved_suffix = None)
FirstSuffix(sufs, name) ==
  LET hits == {i \in 1..Len(sufs) :
                 EndsWith(name, sufs[i]) /\ Len(name) > Len(sufs[i])}
  IN  IF hits = {} THEN <<>>
      ELSE sufs[CHOOSE i \in hits : \A j \in hits : i <= j]

PreservedSuffix(lang, name) == FirstSuffix(get_preserve_suffixes(lang), name)

RECURSIVE ObfuscatePartsReversed(_, _, _, _)
\* a loop over parts that puts each token before the ones it has
ObfuscatePartsReversed(lang, parts, done, wm) ==
  IF parts = <<>> THEN [parts |-> done, word_mapping |-> wm]
  ELSE LET part == Head(parts)
       IN  IF should_preserve(lang, part)
             THEN ObfuscatePartsReversed(lang, Tail(parts),
                                         <<part>> \o done, wm)
             ELSE LET wm2 == IF MapHas(wm, part) THEN wm
                             ELSE MapPut(wm, part, deterministic_hash(part))
                  IN  ObfuscatePartsReversed(lang, Tail(parts),
                                             <<MapGet(wm2, part)>> \o done,
                                             wm2)

RECURSIVE ObfuscateParts(_, _, _, _)
\* the loop over parts: [obfuscated_parts so far, word_mapping]
ObfuscateParts(lang, parts, done, wm) ==
  IF parts = <<>> THEN [parts |-> done, word_mapping |-> wm]
  ELSE LET part == Head(parts)
       IN  IF should_preserve(lang, part)
             THEN ObfuscateParts(lang, Tail(parts), Append(done, part), wm)
             ELSE LET wm2 == IF MapHas(wm, part) THEN wm
                             ELSE MapPut(wm, part, deterministic_hash(part))
                  IN  ObfuscateParts(lang, Tail(parts),
                                     Append(done, MapGet(wm2, part)), wm2)

\* a reconstruction that leaves the removed suffix off
ReconstructWithoutSuffix(r, preserved_suffix) ==
  [result |-> Flatten(r.parts), word_mapping |-> r.word_mapping]

\* result = ''.join(obfuscated_parts), with preserved_suffix added
Reconstruct(r, preserved_suffix) ==
  [result |-> Flatten(r.parts) \o preserved_suffix,
   word_mapping |-> r.word_mapping]

\* the main part (the name without preserved_suffix) obfuscated and the
\* suffix put back
ObfuscateMain(lang, name, wm, preserved_suffix) ==
  Reconstruct(
    ObfuscateParts(lang,
      split_camelcase(SubSeq(name, 1, Len(name) - Len(preserved_suffix))),
      <<>>, wm),
    preserved_suffix)

\* ObfuscationEngine.obfuscate_composite(name, word_mapping): the returned
\* text and the word_mapping as the call leaves it
obfuscate_composite(lang, name, wm) ==
  IF should_preserve(lang, name)
    THEN [result |-> name, word_mapping |-> wm]
    ELSE ObfuscateMain(lang, name, wm, PreservedSuffix(lang, name))

(***************************************************************************)
(* Source text and its syntax tree.  The tree provider (tree-sitter) is    *)
(* external: a source is a sequence of statements, each with the nodes of  *)
(* interest the parser reports for it, in pre-order (a parent before its   *)
(* children), with 0-based half-open byte ranges.  Statements are joined   *)
(* by a newline.                                                           *)
(***************************************************************************)
\* the back-quote character (a string the parser of this module accepts)
BACKTICK == "backtick"

Statement(id) ==
  CASE id = "cs_composite" ->
       \* getUserDataAsync();
       [bytes |-> <<"g","e","t","U","s","e","r","D","a","t","a","A","s","y","n","c","(",")",";">>,
        nodes |-> << [type |-> "identifier", start_byte |-> 0, end_byte |-> 16] >>]
    [] id = "cs_string" ->
       \* case "Submit":
       [bytes |-> <<"c","a","s","e"," ","\"","S","u","b","m","i","t","\"",":">>,
        nodes |-> << [type |-> "string_literal", start_byte |-> 5, end_byte |-> 13] >>]
    [] id = "cs_return" ->
       \* return"Submit";
       [bytes |-> <<"r","e","t","u","r","n","\"","S","u","b","m","i","t","\"",";">>,
        nodes |-> << [type |-> "string_literal", start_byte |-> 6, end_byte |-> 14] >>]
    [] id = "cs_comment" ->
       \* // hello
       [bytes |-> <<"/","/"," ","h","e","l","l","o">>,
        nodes |-> << [type |-> "comment", start_byte |-> 0, end_byte |-> 8] >>]
    [] id = "cs_using_local" ->
       \* using Foo;
       [bytes |-> <<"u","s","i","n","g"," ","F","o","o",";">>,
        nodes |-> << [type |-> "using_directive", start_byte |-> 0, end_byte |-> 10],
                   [type |-> "identifier", start_byte |-> 6, end_byte |-> 9] >>]
    [] id = "cs_using_system" ->
       \* using System;
       [bytes |-> <<"u","s","i","n","g"," ","S","y","s","t","e","m",";">>,
        nodes |-> << [type |-> "using_directive", start_byte |-> 0, end_byte |-> 13],
                   [type |-> "identifier", start_byte |-> 6, end_byte |-> 12] >>]
    [] id = "cs_viewmodel" ->
       \* UserViewModel();
       [bytes |-> <<"U","s","e","r","V","i","e","w","M","o","d","e","l","(",")",";">>,
        nodes |-> << [type |-> "identifier", start_byte |-> 0, end_byte |-> 13] >>]
    [] id = "cs_async" ->
       \* Async();
       [bytes |-> <<"A","s","y","n","c","(",")",";">>,
        nodes |-> << [type |-> "identifier", start_byte |-> 0, end_byte |-> 5] >>]
    [] id = "cs_escape" ->
       \* case "\n":
       [bytes |-> <<"c","a","s","e"," ","\"","\\","n","\"",":">>,
        nodes |-> << [type |-> "string_literal", start_byte |-> 5, end_byte |-> 9] >>]
    [] id = "cs_verbatim" ->
       \* case @"Submit":
       [bytes |-> <<"c","a","s","e"," ","@","\"","S","u","b","m","i","t","\"",":">>,
        nodes |-> << [type |-> "verbatim_string_literal", start_byte |-> 5, end_byte |-> 14] >>]
    [] id = "cs_empty" ->
       \* case "":
       [bytes |-> <<"c","a","s","e"," ","\"","\"",":">>,
        nodes |-> << [type |-> "string_literal", start_byte |-> 5, end_byte |-> 7] >>]
    [] id = "cs_newb" ->
       \* case "newb":
       [bytes |-> <<"c","a","s","e"," ","\"","n","e","w","b","\"",":">>,
        nodes |-> << [type |-> "string_literal", start_byte |-> 5, end_byte |-> 11] >>]
    [] id = "cs_assign" ->
       \* data=get;
       [bytes |-> <<"d","a","t","a","=","g","e","t",";">>,
        nodes |-> << [type |-> "identifier", start_byte |-> 0, end_byte |-> 4],
                   [type |-> "identifier", start_byte |-> 5, end_byte |-> 8] >>]
    [] id = "cs_task" ->
       \* Task();
       [bytes |-> <<"T","a","s","k","(",")",";">>,
        nodes |-> << [type |-> "identifier", start_byte |-> 0, end_byte |-> 4] >>]
    [] id = "cs_collide" ->
       \* eg=ir;
       [bytes |-> <<"e","g","=","i","r",";">>,
        nodes |-> << [type |-> "identifier", start_byte |-> 0, end_byte |-> 2],
                   [type |-> "identifier", start_byte |-> 3, end_byte |-> 5] >>]
    [] id = "js_composite" ->
       \* getUserDataAsync();
       [bytes |-> <<"g","e","t","U","s","e","r","D","a","t","a","A","s","y","n","c","(",")",";">>,
        nodes |-> << [type |-> "identifier", start_byte |-> 0, end_byte |-> 16] >>]
    [] id = "js_single" ->
       \* case 'Submit':
       [bytes |-> <<"c","a","s","e"," ","'","S","u","b","m","i","t","'",":">>,
        nodes |-> << [type |-> "string", start_byte |-> 5, end_byte |-> 13] >>]
    [] id = "js_double" ->
       \* case "Submit":
       [bytes |-> <<"c","a","s","e"," ","\"","S","u","b","m","i","t","\"",":">>,
        nodes |-> << [type |-> "string", start_byte |-> 5, end_byte |-> 13] >>]
    [] id = "js_template" ->
       \* case (backtick)Submit(backtick):
       [bytes |-> <<"c","a","s","e"," ",BACKTICK,"S","u","b","m","i","t",BACKTICK,":">>,
        nodes |-> << [type |-> "template_string", start_byte |-> 5, end_byte |-> 13] >>]
    [] id = "js_template_sub" ->
       \* (backtick)${get}(backtick);
       [bytes |-> <<BACKTICK,"$","{","g","e","t","}",BACKTICK,";">>,
        nodes |-> << [type |-> "template_string", start_byte |-> 0, end_byte |-> 8],
                   [type |-> "identifier", start_byte |-> 3, end_byte |-> 6] >>]
    [] id = "js_comment" ->
       \* // hello
       [bytes |-> <<"/","/"," ","h","e","l","l","o">>,
        nodes |-> << [type |-> "comment", start_byte |-> 0, end_byte |-> 8] >>]
    [] id = "js_import_local" ->
       \* import a from './b';
       [bytes |-> <<"i","m","p","o","r","t"," ","a"," ","f","r","o","m"," ","'",".","/","b","'",";">>,
        nodes |-> << [type |-> "import_statement", start_byte |-> 0, end_byte |-> 20],
                   [type |-> "identifier", start_byte |-> 7, end_byte |-> 8],
                   [type |-> "string", start_byte |-> 14, end_byte |-> 19] >>]
    [] id = "js_import_react" ->
       \* import React from 'react';
       [bytes |-> <<"i","m","p","o","r","t"," ","R","e","a","c","t"," ","f","r","o","m"," ","'","r","e","a","c","t","'",";">>,
        nodes |-> << [type |-> "import_statement", start_byte |-> 0, end_byte |-> 26],
                   [type |-> "identifier", start_byte |-> 7, end_byte |-> 12],
                   [type |-> "string", start_byte |-> 18, end_byte |-> 25] >>]
    [] id = "js_assign" ->
       \* data=get;
       [bytes |-> <<"d","a","t","a","=","g","e","t",";">>,
        nodes |-> << [type |-> "identifier", start_byte |-> 0, end_byte |-> 4],
                   [type |-> "identifier", start_byte |-> 5, end_byte |-> 8] >>]
    [] id = "js_task" ->
       \* Task();
       [bytes |-> <<"T","a","s","k","(",")",";">>,
        nodes |-> << [type |-> "identifier", start_byte |-> 0, end_byte |-> 4] >>]

CSharpStatements ==
  {"cs_composite", "cs_string", "cs_return", "cs_comment", "cs_using_local",
   "cs_using_system", "cs_viewmodel", "cs_async", "cs_escape", "cs_assign",
   "cs_task", "cs_collide", "cs_verbatim", "cs_empty", "cs_newb"}
JavaScriptStatements ==
  {"js_composite", "js_single", "js_double", "js_template", "js_comment",
   "js_import_local", "js_import_react", "js_assign", "js_task",
   "js_template_sub"}
Statements(lang) ==
  IF lang = "csharp" THEN CSharpStatements ELSE JavaScriptStatements

\* a node moved by off bytes
ShiftNode(n, off) ==
  [type |-> n.type, start_byte |-> n.start_byte + off,
   end_byte |-> n.end_byte + off]

\* the source acc with the statement st put after it
WithStatement(acc, st) ==
  LET sep == IF acc.bytes = <<>> THEN <<>> ELSE <<"\n">>
      off == Len(acc.bytes) + Len(sep)
  IN  [bytes |-> acc.bytes \o sep \o st.bytes,
       nodes |-> acc.nodes \o
                 [i \in 1..Len(st.nodes) |-> ShiftNode(st.nodes[i], off)]]

RECURSIVE ParseFrom(_, _)
\* parser.parse(source_bytes) for the statements stmts: the bytes and the
\* nodes of the tree in pre-order
ParseFrom(stmts, acc) ==
  IF stmts = <<>> THEN acc
  ELSE ParseFrom(Tail(stmts), WithStatement(acc, Statement(Head(stmts))))

Parse(stmts) == ParseFrom(stmts, [bytes |-> <<>>, nodes |-> <<>>])

\* source_bytes[node.start_byte:node.end_byte].decode('utf8')
NodeText(src, n) == Slice(src.bytes, n.start_byte, n.end_byte)

(***************************************************************************)
(* Adapter policy on imports.                                              *)
(***************************************************************************)
\* any(ns in text_lower for ns in keep_namespaces)
HasKeep(lang, text_lower) ==
  \E i \in 1..Len(KeepList(lang)) : Contains(text_lower, KeepList(lang)[i])

\* adapter.should_remove_import(import_text)
should_remove_import(lang, import_text) ==
  IF lang = "csharp"
    THEN ~HasKeep(lang, Lower(import_text))
    ELSE IF Contains(Lower(import_text), <<"e","x","p","o","r","t">>)
           THEN FALSE
           ELSE ~HasKeep(lang, Lower(import_text))

\* adapter.get_preserve_import_ranges(source_bytes, tree)
get_preserve_import_ranges(lang, src) ==
  SelectSeq(src.nodes,
    LAMBDA n : /\ n.type \in get_import_node_types(lang)
               /\ HasKeep(lang, Lower(NodeText(src, n))))

(***************************************************************************)
(* obfuscate_code_section                                                  *)
(***************************************************************************)
\* collect(): the ranges of the string nodes
StringRanges(lang, src) ==
  SelectSeq(src.nodes, LAMBDA n : n.type \in get_string_node_types(lang))

\* collect(): all_identifiers, the set of the texts of the identifier nodes
AllIdentifiers(lang, src) ==
  {NodeText(src, src.nodes[i]) :
     i \in {j \in 1..Len(src.nodes) :
              /\ src.nodes[j].type \notin get_string_node_types(lang)
              /\ src.nodes[j].type = "identifier"}}

\* a test that finds no range around any node
InRangesNone(ranges, start_byte, end_byte) == FALSE

\* is_in_string / is_in_preserve_range: inside one of the ranges
InRanges(ranges, start_byte, end_byte) ==
  \E i \in 1..Len(ranges) :
    start_byte >= ranges[i].start_byte /\ end_byte <= ranges[i].end_byte

RECURSIVE Perms(_)
\* the orders in which a set may be iterated
Perms(S) ==
  IF S = {} THEN {<<>>}
  ELSE UNION {{<<x>> \o q : q \in Perms(S \ {x})} : x \in S}

RECURSIVE AssignIdentifiersCounted(_, _, _, _)
\* a loop over all_identifiers that numbers the identifiers as it meets
\* them instead of hashing their words
AssignIdentifiersCounted(lang, names, wm, im) ==
  IF names = <<>> THEN [word_mapping |-> wm, identifier_mapping |-> im]
  ELSE LET name == Head(names)
       IN  IF MapHas(im, name)
             THEN AssignIdentifiersCounted(lang, Tail(names), wm, im)
             ELSE IF Lower(name) \in Range(get_exclude_patterns(lang))
               THEN AssignIdentifiersCounted(lang, Tail(names), wm,
                                             MapPut(im, name, name))
               ELSE AssignIdentifiersCounted(lang, Tail(names), wm,
                      MapPut(im, name, <<"T">> \o Decimal(Len(im))))

RECURSIVE AssignIdentifiers(_, _, _, _)
\* the loop "for name in all_identifiers", names in iteration order:
\* [word_mapping, identifier_mapping] as the loop leaves them
AssignIdentifiers(lang, names, wm, im) ==
  IF names = <<>> THEN [word_mapping |-> wm, identifier_mapping |-> im]
  ELSE LET name == Head(names)
           Assigned(r) ==
             AssignIdentifiers(lang, Tail(names), r.word_mapping,
                               MapPut(im, name, r.result))
       IN  IF MapHas(im, name)
             THEN AssignIdentifiers(lang, Tail(names), wm, im)
             ELSE IF Lower(name) \in Range(get_exclude_patterns(lang))
               THEN AssignIdentifiers(lang, Tail(names), wm,
                                      MapPut(im, name, name))
               ELSE Assigned(obfuscate_composite(lang, name, wm))

\* a placeholder numbered from one
PlaceholderFromOne(n) ==
  <<"/","*","_","_","C","M","T">> \o Decimal(n + 1) \o <<"_","_","*","/">>

\* the placeholder f"/*__CMT{comment_counter}__*/"
Placeholder(n) ==
  <<"/","*","_","_","C","M","T">> \o Decimal(n) \o <<"_","_","*","/">>

\* one entry of modifications: (start_byte, end_byte, replacement), with
\* is_none for a replacement of None
Mod(start_byte, end_byte, replacement, is_none) ==
  [start_byte |-> start_byte, end_byte |-> end_byte,
   replacement |-> replacement, is_none |-> is_none]

\* collect_mods on one node (its children follow in the pre-order list).
\* st holds modifications, comment_mapping, string_mapping, comment_counter.
CollectModsNode(lang, src, n, im, string_ranges, preserve_ranges, st) ==
  LET text == NodeText(src, n)
  IN
  IF n.type \in get_import_node_types(lang) THEN
    IF should_remove_import(lang, text)
      THEN [st EXCEPT !.modifications =
                        Append(@, Mod(n.start_byte, n.end_byte, <<>>, TRUE))]
      ELSE st
  ELSE IF n.type \in get_comment_node_types(lang) THEN
    LET placeholder == Placeholder(st.comment_counter)
    IN  [st EXCEPT !.comment_mapping = MapPut(@, placeholder, text),
                   !.comment_counter = @ + 1,
                   !.modifications =
                     Append(@, Mod(n.start_byte, n.end_byte, placeholder, FALSE))]
  ELSE IF n.type \in get_string_node_types(lang) THEN
    LET quote_char == text[1]
    IN  IF StartsWith(text, <<BACKTICK>>) THEN st
        ELSE IF quote_char \in {"\"", "'"} THEN
          LET string_content == SubSeq(text, 2, Len(text) - 1)
              sm2 == IF string_content # <<>> /\ ~MapHas(st.string_mapping, string_content)
                       THEN MapPut(st.string_mapping, string_content,
                                   obfuscate_string_literal(string_content))
                       ELSE st.string_mapping
          IN  IF MapHas(sm2, string_content)
                THEN [st EXCEPT !.string_mapping = sm2,
                                !.modifications =
                                  Append(@, Mod(n.start_byte, n.end_byte,
                                                MapGet(sm2, string_content), FALSE))]
                ELSE [st EXCEPT !.string_mapping = sm2]
        ELSE st
  ELSE IF n.type = "identifier" THEN
    IF /\ ~InRanges(string_ranges, n.start_byte, n.end_byte)
       /\ ~InRanges(preserve_ranges, n.start_byte, n.end_byte)
       /\ MapHas(im, text)
       /\ MapGet(im, text) # text
      THEN [st EXCEPT !.modifications =
                        Append(@, Mod(n.start_byte, n.end_byte, MapGet(im, text), FALSE))]
      ELSE st
  ELSE st

RECURSIVE CollectMods(_, _, _, _, _, _, _)
\* collect_mods(tree.root_node): the nodes from index i on, in pre-order
CollectMods(lang, src, i, im, string_ranges, preserve_ranges, st) ==
  IF i > Len(src.nodes) THEN st
  ELSE CollectMods(lang, src, i + 1, im, string_ranges, preserve_ranges,
         CollectModsNode(lang, src, src.nodes[i], im, string_ranges,
                         preserve_ranges, st))

RECURSIVE InsertByStart(_, _)
\* m put into the sorted list after every entry whose start is not larger
InsertByStart(sorted, m) ==
  IF sorted = <<>> THEN <<m>>
  ELSE IF Head(sorted).start_byte <= m.start_byte
    THEN <<Head(sorted)>> \o InsertByStart(Tail(sorted), m)
    ELSE <<m>> \o sorted

RECURSIVE SortByStart(_)
\* modifications.sort(key=lambda x: x[0]): stable, ascending start_byte
SortByStart(mods) ==
  IF mods = <<>> THEN <<>>
  ELSE InsertByStart(SortByStart(SubSeq(mods, 1, Len(mods) - 1)), mods[Len(mods)])

RECURSIVE ApplyMods(_, _, _, _)
\* the application loop and the trailing copy: out is b''.join(result_parts)
ApplyMods(bytes, mods, last_pos, out) ==
  IF mods = <<>>
    THEN IF last_pos < Len(bytes)
           THEN out \o Slice(bytes, last_pos, Len(bytes))
           ELSE out
    ELSE LET m == Head(mods)
             copied == IF m.start_byte > last_pos
                         THEN out \o Slice(bytes, last_pos, m.start_byte)
                         ELSE out
             spliced == IF m.is_none THEN copied ELSE copied \o m.replacement
         IN  ApplyMods(bytes, Tail(mods), m.end_byte, spliced)

\* ObfuscationEngine.obfuscate_code_section(source_code, word_mapping,
\* identifier_mapping, comment_mapping, string_mapping); names is the order
\* in which the set all_identifiers is iterated
obfuscate_code_section(lang, src, names, wm, im, cm, sm) ==
  LET Applied(a, st, modifications) ==
        [result |-> ApplyMods(src.bytes, modifications, 0, <<>>),
         word_mapping |-> a.word_mapping,
         identifier_mapping |-> a.identifier_mapping,
         comment_mapping |-> st.comment_mapping,
         string_mapping |-> st.string_mapping,
         modifications |-> modifications]
      Sorted(a, st) == Applied(a, st, SortByStart(st.modifications))
      Collected(a) ==
        Sorted(a, CollectMods(lang, src, 1, a.identifier_mapping,
                              StringRanges(lang, src),
                              get_preserve_import_ranges(lang, src),
                              [modifications |-> <<>>, comment_mapping |-> cm,
                               string_mapping |-> sm,
                               comment_counter |-> Len(cm)]))
  IN  Collected(AssignIdentifiers(lang, names, wm, im))

(***************************************************************************)
(* Text sections (@prompt ... @prompt) and process_content.                *)
(***************************************************************************)
\* \b of re at the gap before the (1-based) position i
IsBoundary(text, i) == IsWordChar(At(text, i - 1)) # IsWordChar(At(text, i))

\* a pattern without the two \b: tok matches wherever it occurs
MatchAnywhere(text, tok, i) == OccursAt(text, tok, i)

\* r'\b' + re.escape(tok) + r'\b' matches at position i
MatchAt(text, tok, i) ==
  /\ OccursAt(text, tok, i)
  /\ IsBoundary(text, i)
  /\ IsBoundary(text, i + Len(tok))

\* the same pattern compiled with re.IGNORECASE
MatchAtIgnoreCase(text, tok, i) ==
  /\ OccursAt(Lower(text), Lower(tok), i)
  /\ IsBoundary(text, i)
  /\ IsBoundary(text, i + Len(tok))

\* chr() of the escapes of a replacement template; the characters that a
\* string of this module cannot hold have a name instead
EscapeChar(c) ==
  CASE c = "n" -> "\n"
    [] c = "t" -> "\t"
    [] c = "r" -> "\r"
    [] c = "f" -> "\f"
    [] c = "a" -> "chr7"
    [] c = "b" -> "chr8"
    [] c = "v" -> "chr11"
    [] c = "0" -> "chr0"
    [] c = "\\" -> "\\"
    [] OTHER -> c

RECURSIVE ExpandFrom(_, _)
\* re's parsing of a replacement template from position i on: ok is FALSE
\* where re raises (bad escape, invalid group reference), else text is the
\* replacement made for a pattern without groups
ExpandFrom(t, i) ==
  IF i > Len(t) THEN [ok |-> TRUE, text |-> <<>>]
  ELSE IF t[i] # "\\"
    THEN LET r == ExpandFrom(t, i + 1)
         IN  [ok |-> r.ok, text |-> <<t[i]>> \o r.text]
  ELSE IF i = Len(t) THEN [ok |-> FALSE, text |-> <<>>]
  ELSE LET c == t[i + 1]
           r == ExpandFrom(t, i + 2)
       IN  IF c \in {"n", "t", "r", "f", "a", "b", "v", "0", "\\"}
             THEN [ok |-> r.ok, text |-> <<EscapeChar(c)>> \o r.text]
           ELSE IF c \in Lowers \cup Uppers \cup Digits
             THEN [ok |-> FALSE, text |-> <<>>]
           ELSE [ok |-> r.ok, text |-> <<"\\", c>> \o r.text]

RECURSIVE SubFrom(_, _, _, _, _)
\* the scan of pattern.sub from position i: every match, left to right and
\* not overlapping, gives way to new
SubFrom(text, tok, new, i, ignore_case) ==
  IF i > Len(text) THEN <<>>
  ELSE IF IF ignore_case THEN MatchAtIgnoreCase(text, tok, i)
                         ELSE MatchAt(text, tok, i)
    THEN new \o SubFrom(text, tok, new, i + Len(tok), ignore_case)
    ELSE <<text[i]>> \o SubFrom(text, tok, new, i + 1, ignore_case)

\* re.compile(r'\b' + re.escape(tok) + r'\b', flags).sub(repl, text) on the
\* running result r = [ok, text]; an exception leaves ok FALSE
pattern_sub(r, tok, repl, ignore_case) ==
  IF ~r.ok THEN r
  ELSE LET t == ExpandFrom(repl, 1)
       IN  IF t.ok
             THEN [ok |-> TRUE,
                   text |-> SubFrom(r.text, tok, t.text, 1, ignore_case)]
             ELSE [ok |-> FALSE, text |-> r.text]

\* the items of a dict in the order of the dict
SortedNot(m) == m

RECURSIVE InsertByLen(_, _)
\* item put into the list after every entry whose key is not shorter
InsertByLen(sorted, item) ==
  IF sorted = <<>> THEN <<item>>
  ELSE IF Len(Head(sorted)[1]) >= Len(item[1])
    THEN <<Head(sorted)>> \o InsertByLen(Tail(sorted), item)
    ELSE <<item>> \o sorted

RECURSIVE SortedByLen(_)
\* sorted(m.items(), key=lambda x: len(x[0]), reverse=True): the longest
\* keys first, equally long keys in the order of the dict
SortedByLen(m) ==
  IF m = <<>> THEN <<>>
  ELSE InsertByLen(SortedByLen(SubSeq(m, 1, Len(m) - 1)), m[Len(m)])

RECURSIVE SubAll(_, _, _)
\* for tok, repl in items: result = pattern.sub(repl, result)
SubAll(r, items, ignore_case) ==
  IF items = <<>> THEN r
  ELSE SubAll(pattern_sub(r, Head(items)[1], Head(items)[2], ignore_case),
              Tail(items), ignore_case)

\* ObfuscationEngine.obfuscate_text_section(text, word_mapping,
\* identifier_mapping)
obfuscate_text_section(text, wm, im) ==
  SubAll([ok |-> TRUE, text |-> text],
         SelectSeq(SortedByLen(im), LAMBDA e : e[1] # e[2]), TRUE)

RECURSIVE Join(_, _)
\* sep.join(parts)
Join(parts, sep) ==
  IF parts = <<>> THEN <<>>
  ELSE IF Len(parts) = 1 THEN parts[1]
  ELSE parts[1] \o sep \o Join(Tail(parts), sep)

\* a part of the content between @prompt markers: code is a sequence of
\* statements, text is prose
CodePart(stmts) == [kind |-> "code", stmts |-> stmts, text |-> <<>>]
TextPart(text) == [kind |-> "text", stmts |-> <<>>, text |-> text]

\* not part.strip()
IsBlank(part) ==
  IF part.kind = "code" THEN part.stmts = <<>>
  ELSE \A i \in 1..Len(part.text) : part.text[i] \in Whitespace

\* the four mappings and the obfuscated parts so far
Maps(wm, im, cm, sm) ==
  [word_mapping |-> wm, identifier_mapping |-> im,
   comment_mapping |-> cm, string_mapping |-> sm]
NoMaps == Maps(<<>>, <<>>, <<>>, <<>>)

\* what one call of obfuscate_code_section worked on: the parsed source
\* and the sorted list modifications
Section(src, modifications) == [src |-> src, modifications |-> modifications]

\* what a call of obfuscate_code_section leaves: the text it returns, the
\* four mappings and the section it worked on
Outcome(src, r) ==
  [result |-> r.result,
   maps |-> Maps(r.word_mapping, r.identifier_mapping, r.comment_mapping,
                 r.string_mapping),
   plan |-> <<Section(src, r.modifications)>>]

\* obfuscate_code_section on the parsed source src with the mappings maps.
\* The set all_identifiers is iterated in an order the run does not
\* control, so the call has a set of outcomes
CodeSection(lang, src, maps) ==
  { Outcome(src, r) :
      r \in { obfuscate_code_section(lang, src, names, maps.word_mapping,
                                     maps.identifier_mapping,
                                     maps.comment_mapping,
                                     maps.string_mapping)
              : names \in Perms(AllIdentifiers(lang, src)) } }

RECURSIVE ProcessParts(_, _, _, _, _)
\* the loop over the parts of process_content, with its set of outcomes
\* [out, maps, plan]
ProcessParts(lang, parts, out, maps, plan) ==
  IF parts = <<>> THEN {[out |-> out, maps |-> maps, plan |-> plan]}
  ELSE LET part == Head(parts)
       IN  IF IsBlank(part)
             THEN ProcessParts(lang, Tail(parts), out, maps, plan)
           ELSE IF part.kind = "text"
             THEN ProcessParts(lang, Tail(parts),
                    Append(out, obfuscate_text_section(part.text,
                                  maps.word_mapping,
                                  maps.identifier_mapping).text),
                    maps, plan)
           ELSE UNION { ProcessParts(lang, Tail(parts),
                          Append(out, r.result), r.maps,
                          Append(plan, r.plan[1]))
                        : r \in CodeSection(lang, Parse(part.stmts), maps) }

\* re.search(r'@prompt', content): the content has more than its one code
\* section
HasPrompt(content) == Len(content) # 1 \/ content[1].kind # "code"

\* ObfuscationEngine.process_content(content) for the mappings that
\* load_existing_mapping returned: the possible [result, maps, plan]
process_content(lang, content, loaded) ==
  IF ~HasPrompt(content)
    THEN CodeSection(lang, Parse(content[1].stmts), loaded)
    ELSE { [result |-> Join(o.out, <<"\n", "\n">>), maps |-> o.maps,
            plan |-> o.plan]
           : o \in ProcessParts(lang, content, <<>>, loaded, <<>>) }

(***************************************************************************)
(* unminify.py: deobfuscate_text                                           *)
(***************************************************************************)
RECURSIVE ReplaceFrom(_, _, _, _)
\* str.replace(old, new) from position i on (old is not empty)
ReplaceFrom(text, old, new, i) ==
  IF i > Len(text) THEN <<>>
  ELSE IF OccursAt(text, old, i)
    THEN new \o ReplaceFrom(text, old, new, i + Len(old))
    ELSE <<text[i]>> \o ReplaceFrom(text, old, new, i + 1)

\* text.replace(old, new)
Replace(text, old, new) == ReplaceFrom(text, old, new, 1)

\* {v: k for k, v in m.items()}
Reversed(m) == MapFromPairs([i \in 1..Len(m) |-> <<m[i][2], m[i][1]>>])

\* {v: k for k, v in m.items() if v != k}
ReversedChanged(m) == Reversed(SelectSeq(m, LAMBDA e : e[2] # e[1]))

RECURSIVE Strip(_, _)
\* s.strip(c)
Strip(s, c) ==
  IF s # <<>> /\ s[1] = c THEN Strip(Tail(s), c)
  ELSE IF s # <<>> /\ s[Len(s)] = c THEN Strip(SubSeq(s, 1, Len(s) - 1), c)
  ELSE s

\* the placeholder rebuilt from a key of comment_mapping
PlaceholderOf(key) ==
  IF StartsWith(key, <<"/", "*">>) THEN key
  ELSE <<"/", "*">> \o key \o <<"*", "/">>

RECURSIVE RestoreCommentsFrom(_, _)
RestoreCommentsFrom(text, items) ==
  IF items = <<>> THEN text
  ELSE RestoreCommentsFrom(
         Replace(text, PlaceholderOf(Head(items)[1]),
                 Head(items)[2] \o <<"\n">>),
         Tail(items))

\* step 1: every placeholder gives way to its comment and a newline
RestoreComments(text, cm) == RestoreCommentsFrom(text, SortedByLen(cm))

\* step 2: every whole-word string token gives way to the template
\* '"' + content + '"'
RestoreStrings(r, sm) ==
  LET sorted_strings == SortedByLen(Reversed(sm))
  IN  SubAll(r, [i \in 1..Len(sorted_strings) |->
                   <<sorted_strings[i][1],
                     <<"\"">> \o sorted_strings[i][2] \o <<"\"">> >>],
             FALSE)

RECURSIVE ReplaceAllFrom(_, _)
ReplaceAllFrom(text, items) ==
  IF items = <<>> THEN text
  ELSE ReplaceAllFrom(Replace(text, Head(items)[1], Head(items)[2]),
                      Tail(items))

IsQuoted(obf) == StartsWith(obf, <<"\"">>) /\ EndsWith(obf, <<"\"">>)

\* step 3: quoted tokens literally, their unquoted form and the regular
\* identifier tokens as whole words
RestoreIdentifiers(r, im) ==
  LET reverse_identifiers == ReversedChanged(im)
      string_mappings == SelectSeq(reverse_identifiers,
                                   LAMBDA e : IsQuoted(e[1]))
      unquoted_string_hashes ==
        MapFromPairs([i \in 1..Len(string_mappings) |->
                        <<Strip(string_mappings[i][1], "\""),
                          Strip(string_mappings[i][2], "\"")>>])
      regular_mappings == SelectSeq(reverse_identifiers,
                                    LAMBDA e : ~IsQuoted(e[1]))
      r1 == IF r.ok
              THEN [ok |-> TRUE,
                    text |-> ReplaceAllFrom(r.text, SortedByLen(string_mappings))]
              ELSE r
      r2 == SubAll(r1, SortedByLen(unquoted_string_hashes), FALSE)
  IN  SubAll(r2, SortedByLen(regular_mappings), FALSE)

\* step 4: the remaining word tokens as whole words
RestoreWords(r, wm) == SubAll(r, SortedByLen(ReversedChanged(wm)), FALSE)

\* deobfuscate_text(obfuscated_code, word_mapping, identifier_mapping,
\* comment_mapping, string_mapping): ok is FALSE where the call raises,
\* text is what the call returns, and after_* is the local variable result
\* as each step leaves it
deobfuscate_text(obfuscated_code, wm, im, cm, sm) ==
  LET Returned(c, s, i, w) ==
        [ok |-> w.ok,
         text |-> IF w.ok THEN w.text ELSE <<>>,
         after_comments |-> c.text,
         after_strings |-> s.text,
         after_identifiers |-> i.text]
      Step4(c, s, i) == Returned(c, s, i, RestoreWords(i, wm))
      Step3(c, s) == Step4(c, s, RestoreIdentifiers(s, im))
      Step2(c) == Step3(c, RestoreStrings(c, sm))
  IN  Step2([ok |-> TRUE, text |-> RestoreComments(obfuscated_code, cm)])

(***************************************************************************)
(* The mapping store (mapping.json).                                       *)
(***************************************************************************)
\* save_data of save_mapping
SaveData(created_at, language, maps) ==
  LET reverse_map == ReversedChanged(maps.identifier_mapping)
      reverse_string_map == Reversed(maps.string_mapping)
  IN  [created_at |-> created_at,
       language |-> language,
       total_identifiers |-> Len(maps.identifier_mapping),
       obfuscated_count |-> Len(reverse_map),
       comment_count |-> Len(maps.comment_mapping),
       string_count |-> Len(maps.string_mapping),
       word_mapping |-> maps.word_mapping,
       identifier_mapping |-> maps.identifier_mapping,
       comment_mapping |-> maps.comment_mapping,
       string_mapping |-> maps.string_mapping,
       reverse_map |-> reverse_map,
       reverse_string_map |-> reverse_string_map]

NoData == SaveData(0, "", NoMaps)

RECURSIVE JsonEscape(_)
\* the inside of the JSON string that json.dump(.., ensure_ascii=False)
\* writes for the text s
JsonEscape(s) ==
  IF s = <<>> THEN <<>>
  ELSE (CASE Head(s) = "\"" -> <<"\\", "\"">>
          [] Head(s) = "\\" -> <<"\\", "\\">>
          [] Head(s) = "\n" -> <<"\\", "n">>
          [] Head(s) = "\r" -> <<"\\", "r">>
          [] Head(s) = "\t" -> <<"\\", "t">>
          [] OTHER -> <<Head(s)>>) \o JsonEscape(Tail(s))

\* a reader that takes the inside of a JSON string as it stands
JsonUnescapeNone(t) == t

RECURSIVE JsonUnescape(_)
\* the text that json.load reads from the inside t of a JSON string
JsonUnescape(t) ==
  IF t = <<>> THEN <<>>
  ELSE IF Head(t) = "\\" /\ Len(t) >= 2
    THEN (CASE t[2] = "n" -> <<"\n">>
            [] t[2] = "r" -> <<"\r">>
            [] t[2] = "t" -> <<"\t">>
            [] OTHER -> <<t[2]>>) \o JsonUnescape(Tail(Tail(t)))
    ELSE <<Head(t)>> \o JsonUnescape(Tail(t))

\* a dict as the JSON object written for it, and the dict read from a JSON
\* object (a key met again replaces the value of the first)
JsonDumpMap(m) ==
  [i \in 1..Len(m) |-> <<JsonEscape(m[i][1]), JsonEscape(m[i][2])>>]
JsonLoadMap(o) ==
  MapFromPairs([i \in 1..Len(o) |->
                  <<JsonUnescape(o[i][1]), JsonUnescape(o[i][2])>>])

\* json.dump(save_data, f, indent=2, ensure_ascii=False): the document
JsonDump(data) ==
  [data EXCEPT !.word_mapping = JsonDumpMap(@),
               !.identifier_mapping = JsonDumpMap(@),
               !.comment_mapping = JsonDumpMap(@),
               !.string_mapping = JsonDumpMap(@),
               !.reverse_map = JsonDumpMap(@),
               !.reverse_string_map = JsonDumpMap(@)]

\* json.load(f): the data of the document
JsonLoad(doc) ==
  [doc EXCEPT !.word_mapping = JsonLoadMap(@),
              !.identifier_mapping = JsonLoadMap(@),
              !.comment_mapping = JsonLoadMap(@),
              !.string_mapping = JsonLoadMap(@),
              !.reverse_map = JsonLoadMap(@),
              !.reverse_string_map = JsonLoadMap(@)]

\* the file: absent, holding the JSON document of a save (ok, data is the
\* document), or holding bytes that are no JSON document (corrupt: a write
\* that stopped after open(.., 'w') had emptied the file)
\* ObfuscationEngine.get_mapping_file() of an engine made for language, and
\* unminify.get_mapping_file(): the one file that the variable store is
get_mapping_file(language) == "mapping.json"

AbsentStore == [st |-> "absent", data |-> NoData]
CorruptStore == [st |-> "corrupt", data |-> NoData]
OkStore(data) == [st |-> "ok", data |-> data]

\* ObfuscationEngine.load_existing_mapping(): the maps of the file, and four
\* empty maps when the file is absent or its reading raises
load_existing_mapping(file) ==
  LET Got(data) == Maps(data.word_mapping, data.identifier_mapping,
                        data.comment_mapping, data.string_mapping)
  IN  IF file.st = "ok" THEN Got(JsonLoad(file.data)) ELSE NoMaps

\* ObfuscationEngine.save_mapping(...) when every write succeeds
save_mapping(created_at, language, maps) ==
  OkStore(JsonDump(SaveData(created_at, language, maps)))

\* unminify.load_mapping(): the data of the file, or the exception raised
\* when the file is absent or is no JSON
load_mapping(file) ==
  IF file.st = "ok"
    THEN [ok |-> TRUE, error |-> "", data |-> JsonLoad(file.data)]
    ELSE [ok |-> FALSE,
          error |-> IF file.st = "absent" THEN "FileNotFoundError"
                    ELSE "JSONDecodeError",
          data |-> NoData]

(***************************************************************************)
(* The programs as a state machine.  minify.main is one run: it takes the  *)
(* content the user copied, asks whether to clear the mappings, processes  *)
(* the content, saves the mappings and copies the result; it waits for the *)
(* user between these steps.  unminify.main restores the clipboard.  The   *)
(* whitespace pass minify_code that main applies to the result before      *)
(* showing it is left out: the text kept in result is the one              *)
(* process_content returned.                                               *)
(***************************************************************************)
VARIABLES
  store,      \* mapping.json
  now,        \* the clock that datetime.now() reads
  runs,       \* how many runs of minify.main have started
  faults,     \* how many times a run has met an exception
  run,        \* per process: the locals of minify.main and where it stands
  clipboard,  \* the clipboard: [kind, text]
  restored,   \* the last outcome of deobfuscate_text
  kept,       \* history: the entries saved since the mappings were cleared
  prev,       \* history: the last run that ended
  registry    \* the languages/ directory and the LanguageRegistry made of it

vars ==
  <<store, now, runs, faults, run, clipboard, restored, kept, prev, registry>>

Procs == {"first", "second"}

IdleRun ==
  [pc |-> "idle", lang |-> "", content |-> <<>>, fresh |-> FALSE,
   maps |-> NoMaps, result |-> <<>>, plan |-> <<>>, saved |-> NoData,
   loaded |-> NoMaps, at_load |-> AbsentStore, at_now |-> 0]

NotRestored ==
  [called |-> FALSE, ok |-> FALSE, text |-> <<>>, after_comments |-> <<>>,
   after_strings |-> <<>>, after_identifiers |-> <<>>]

\* deobfuscate_text as called
Called(d) ==
  [called |-> TRUE, ok |-> d.ok, text |-> d.text,
   after_comments |-> d.after_comments,
   after_strings |-> d.after_strings,
   after_identifiers |-> d.after_identifiers]

Restoring(text, maps) ==
  Called(deobfuscate_text(text, maps.word_mapping, maps.identifier_mapping,
                          maps.comment_mapping, maps.string_mapping))

\* unminify.main, lines 105-131, with the file and the text of the
\* clipboard: the outcome of deobfuscate_text, which is not called when
\* load_mapping raises, when the data has neither reverse_map nor
\* word_mapping, or when the text is blank
unminify_main(file, text) ==
  LET Reached(m) ==
        /\ m.ok
        /\ ~(m.data.reverse_map = <<>> /\ m.data.word_mapping = <<>>)
        /\ ~IsBlank(TextPart(text))
      Done(m) ==
        IF Reached(m)
          THEN Restoring(text,
                 Maps(m.data.word_mapping, m.data.identifier_mapping,
                      m.data.comment_mapping, m.data.string_mapping))
          ELSE NotRestored
  IN  Done(load_mapping(file))

NoKept == [word |-> {}, identifier |-> {}, comment |-> {}, string |-> {}]

\* the entries of the four maps of a saved document
EntriesOf(data) ==
  [word |-> MapEntries(JsonLoadMap(data.word_mapping)),
   identifier |-> MapEntries(JsonLoadMap(data.identifier_mapping)),
   comment |-> MapEntries(JsonLoadMap(data.comment_mapping)),
   string |-> MapEntries(JsonLoadMap(data.string_mapping))]

KeptWith(k, data) ==
  LET e == EntriesOf(data)
  IN  [word |-> k.word \cup e.word,
       identifier |-> k.identifier \cup e.identifier,
       comment |-> k.comment \cup e.comment,
       string |-> k.string \cup e.string]

NoPrev ==
  [valid |-> FALSE, lang |-> "", content |-> <<>>, fresh |-> FALSE,
   saved |-> FALSE, result |-> <<>>, data |-> NoData]

\* the contents the user copies in the runs that share mapping.json
CSharpContents ==
  { <<CodePart(<<"cs_task">>)>>,
    <<CodePart(<<"cs_collide", "cs_comment", "cs_string">>)>>,
    <<CodePart(<<"cs_comment", "cs_escape">>)>> }
JavaScriptContents ==
  { <<CodePart(<<"js_task">>)>>,
    <<CodePart(<<"js_assign">>),
      TextPart(<<" ", "G", "e", "t", " ", "i", "t", " ">>),
      CodePart(<<"js_composite">>)>> }
Contents(lang) ==
  IF lang = "csharp" THEN CSharpContents ELSE JavaScriptContents

\* the text of a code section
SectionText(stmts) == Parse(stmts).bytes

RECURSIVE ContentText(_)
\* the content as the user copied it, its parts set apart by @prompt
ContentText(content) ==
  IF content = <<>> THEN <<>>
  ELSE LET part == Head(content)
           text == IF part.kind = "code" THEN SectionText(part.stmts)
                   ELSE part.text
       IN  IF Len(content) = 1 THEN text
           ELSE text \o <<"@", "p", "r", "o", "m", "p", "t">>
                     \o ContentText(Tail(content))

\* the code sections of at most MaxStmts statements
Sources(lang) ==
  UNION {[1..n -> Statements(lang)] : n \in 1..MaxStmts}

Init ==
  /\ store = AbsentStore
  /\ now = 0
  /\ runs = 0
  /\ faults = 0
  /\ run = [p \in Procs |-> IdleRun]
  /\ clipboard = [kind |-> "empty", text |-> <<>>]
  /\ restored = NotRestored
  /\ kept = NoKept
  /\ prev = NoPrev
  /\ registry = [pc |-> "made", dir |-> RepositoryLanguages,
                 reg |-> LanguageRegistry(RepositoryLanguages)]

\* main, lines 451-496: the content the user copied is taken, the adapter of the chosen
\* language makes the engine, and the answer to "Clear mappings?" decides
\* whether mapping.json is unlinked
Start(p, l, c, clear) ==
  /\ run[p].pc = "idle"
  /\ runs < MaxRuns
  /\ runs' = runs + 1
  /\ run' = [run EXCEPT ![p] =
               [IdleRun EXCEPT !.pc = "started", !.lang = l, !.content = c]]
  /\ store' = IF clear THEN AbsentStore ELSE store
  /\ kept' = IF clear THEN NoKept ELSE kept
  /\ clipboard' = [kind |-> "source", text |-> ContentText(c)]
  /\ restored' = NotRestored
  /\ UNCHANGED <<registry, now, faults, prev>>

\* main, lines 501-508: engine.process_content(content), which begins with
\* load_existing_mapping()
Process(p) ==
  /\ run[p].pc = "started"
  /\ \E o \in process_content(run[p].lang, run[p].content,
                              load_existing_mapping(store)) :
       run' = [run EXCEPT ![p] =
                 [@ EXCEPT !.pc = "processed",
                           !.fresh = (store.st = "absent"),
                           !.loaded = load_existing_mapping(store),
                           !.at_load = store,
                           !.at_now = now,
                           !.maps = o.maps,
                           !.result = o.result,
                           !.plan = o.plan]]
  /\ UNCHANGED <<registry, store, now, runs, faults, clipboard, restored, kept,
                 prev>>

\* a run that writes the mappings it has when process_content raises
ProcessFaultCommitting(p, k) ==
  /\ run[p].pc = "started"
  /\ faults < MaxFaults
  /\ faults' = faults + 1
  /\ k < Len(run[p].content)
  /\ \E o \in ProcessParts(run[p].lang, SubSeq(run[p].content, 1, k), <<>>,
                           load_existing_mapping(store), <<>>) :
       /\ run' = [run EXCEPT ![p] =
                    [@ EXCEPT !.pc = "failed",
                              !.loaded = load_existing_mapping(store),
                              !.at_load = store,
                              !.maps = o.maps,
                              !.plan = o.plan]]
       /\ store' = save_mapping(now, run[p].lang, o.maps)
  /\ UNCHANGED <<registry, now, runs, clipboard, restored, kept, prev>>

\* main, lines 501-508: engine.process_content(content) raises after k
\* parts of the content went through (a parser that cannot be made, a byte
\* range that cuts a character); the mappings and the parts obfuscated so
\* far are locals of the call
ProcessFault(p, k) ==
  /\ run[p].pc = "started"
  /\ faults < MaxFaults
  /\ faults' = faults + 1
  /\ k < Len(run[p].content)
  /\ \E o \in ProcessParts(run[p].lang, SubSeq(run[p].content, 1, k), <<>>,
                           load_existing_mapping(store), <<>>) :
       run' = [run EXCEPT ![p] =
                 [@ EXCEPT !.pc = "failed",
                           !.fresh = (store.st = "absent"),
                           !.loaded = load_existing_mapping(store),
                           !.at_load = store,
                           !.at_now = now,
                           !.maps = o.maps,
                           !.plan = o.plan]]
  /\ UNCHANGED <<registry, store, now, runs, clipboard, restored, kept, prev>>

\* main, lines 505-508: the exception is reported and main returns 1
Fail(p) ==
  /\ run[p].pc = "failed"
  /\ run' = [run EXCEPT ![p] = IdleRun]
  /\ UNCHANGED <<registry, store, now, runs, faults, clipboard, restored, kept,
                 prev>>

\* a save that reads the file again and adds its own mappings to it
SaveMerging(p) ==
  /\ run[p].pc = "processed"
  /\ \E old \in {load_existing_mapping(store)} :
       store' = save_mapping(now, run[p].lang,
                  Maps(MapFromPairs(old.word_mapping
                                      \o run[p].maps.word_mapping),
                       MapFromPairs(old.identifier_mapping
                                      \o run[p].maps.identifier_mapping),
                       MapFromPairs(old.comment_mapping
                                      \o run[p].maps.comment_mapping),
                       MapFromPairs(old.string_mapping
                                      \o run[p].maps.string_mapping)))
  /\ now' = now + 1
  /\ run' = [run EXCEPT ![p] = [@ EXCEPT !.pc = "saved",
                                           !.saved = store'.data]]
  /\ UNCHANGED <<registry, runs, faults, clipboard, restored, kept, prev>>

\* main, lines 520-523: save_mapping writes the file
Save(p) ==
  /\ run[p].pc = "processed"
  /\ store' = save_mapping(now, run[p].lang, run[p].maps)
  /\ now' = now + 1
  /\ run' = [run EXCEPT ![p] = [@ EXCEPT !.pc = "saved",
                                           !.saved = store'.data]]
  /\ UNCHANGED <<registry, runs, faults, clipboard, restored, kept, prev>>

\* main, lines 524-525: save_mapping raises and main goes on.  The file is
\* as it was when open() raised, and is no JSON when the write stopped
\* after open(.., 'w') had emptied it
SaveFault(p, emptied) ==
  /\ run[p].pc = "processed"
  /\ faults < MaxFaults
  /\ faults' = faults + 1
  /\ store' = IF emptied THEN CorruptStore ELSE store
  /\ run' = [run EXCEPT ![p] = [@ EXCEPT !.pc = "unsaved"]]
  /\ UNCHANGED <<registry, now, runs, clipboard, restored, kept, prev>>

\* main, lines 533-542: the result is copied and the run ends
Finish(p) ==
  /\ run[p].pc \in {"saved", "unsaved"}
  /\ clipboard' = [kind |-> "obfuscated", text |-> run[p].result]
  /\ prev' = [valid |-> TRUE, lang |-> run[p].lang,
              content |-> run[p].content, fresh |-> run[p].fresh,
              saved |-> run[p].pc = "saved", result |-> run[p].result,
              data |-> run[p].saved]
  /\ kept' = IF run[p].pc = "saved" THEN KeptWith(kept, run[p].saved)
             ELSE kept
  /\ run' = [run EXCEPT ![p] = IdleRun]
  /\ UNCHANGED <<registry, store, now, runs, faults, restored>>

\* main, lines 583-585: the user interrupts the run at one of its prompts
Abort(p) ==
  /\ run[p].pc \in {"started", "processed"}
  /\ run' = [run EXCEPT ![p] = IdleRun]
  /\ UNCHANGED <<registry, store, now, runs, faults, clipboard, restored, kept,
                 prev>>

\* unminify.main on an obfuscated clipboard: nothing happens when
\* load_mapping raises, when the file has neither reverse_map nor
\* word_mapping, or when the clipboard is blank; the clipboard changes only
\* when deobfuscate_text returns
Unminify ==
  /\ clipboard.kind = "obfuscated"
  /\ \E r \in {unminify_main(store, clipboard.text)} :
       /\ r.called
       /\ restored' = r
       /\ clipboard' = IF r.ok THEN [kind |-> "restored", text |-> r.text]
                       ELSE clipboard
  /\ UNCHANGED <<registry, store, now, runs, faults, run, kept, prev>>

\* the runs of minify.main, one after the other, and unminify.main
Next ==
  \/ \E l \in Langs : \E c \in Contents(l) : \E clear \in BOOLEAN :
       Start("first", l, c, clear)
  \/ Process("first")
  \/ \E k \in 0..MaxParts : ProcessFault("first", k)
  \/ Fail("first")
  \/ Save("first")
  \/ \E emptied \in BOOLEAN : SaveFault("first", emptied)
  \/ Finish("first")
  \/ Abort("first")
  \/ Unminify

Spec == Init /\ [][Next]_vars

(***************************************************************************)
(* Two runs of minify.main at the same time, in two processes that share   *)
(* mapping.json and the clipboard.  Nothing in main or in the engine locks *)
(* the file: the steps of the two runs interleave freely.  A save is one   *)
(* step: the saves of the two runs come one after the other.               *)
(***************************************************************************)
\* main, lines 533-542, with no history taken: the result is copied and
\* the run ends
FinishRace(p) ==
  /\ run[p].pc = "saved"
  /\ clipboard' = [kind |-> "obfuscated", text |-> run[p].result]
  /\ run' = [run EXCEPT ![p] = IdleRun]
  /\ UNCHANGED <<registry, store, now, runs, faults, restored, kept, prev>>

NextRace ==
  \/ \E p \in Procs : \E l \in Langs : \E c \in Contents(l) :
       \E clear \in BOOLEAN : Start(p, l, c, clear)
  \/ \E p \in Procs : Process(p)
  \/ \E p \in Procs : Save(p)
  \/ \E p \in Procs : FinishRace(p)

SpecRace == Init /\ [][NextRace]_vars

(***************************************************************************)
(* LanguageRegistry made over a languages/ directory.                      *)
(***************************************************************************)
InitRegistry ==
  /\ store = AbsentStore
  /\ now = 0
  /\ runs = 0
  /\ faults = 0
  /\ run = [p \in Procs |-> IdleRun]
  /\ clipboard = [kind |-> "empty", text |-> <<>>]
  /\ restored = NotRestored
  /\ kept = NoKept
  /\ prev = NoPrev
  /\ \E d \in Directories :
       registry = [pc |-> "dir", dir |-> d, reg |-> EmptyRegistry]

\* main, lines 436-437: registry = LanguageRegistry('languages')
MakeRegistry ==
  /\ registry.pc = "dir"
  /\ registry' = [registry EXCEPT !.pc = "made",
                                  !.reg = LanguageRegistry(registry.dir)]
  /\ UNCHANGED <<store, now, runs, faults, run, clipboard, restored, kept,
                 prev>>

NextRegistry == MakeRegistry

SpecRegistry == InitRegistry /\ [][NextRegistry]_vars

(***************************************************************************)
(* One code section obfuscated with empty mappings, then restored with     *)
(* the mappings the obfuscation made.                                      *)
(***************************************************************************)
InitRoundTrip ==
  /\ store = AbsentStore
  /\ now = 0
  /\ runs = 0
  /\ faults = 0
  /\ \E l \in Langs : \E stmts \in Sources(l) :
       run = [p \in Procs |->
                IF p = "first"
                  THEN [IdleRun EXCEPT !.pc = "source", !.lang = l,
                                       !.content = <<CodePart(stmts)>>]
                  ELSE IdleRun]
  /\ clipboard = [kind |-> "empty", text |-> <<>>]
  /\ restored = NotRestored
  /\ kept = NoKept
  /\ prev = NoPrev
  /\ registry = [pc |-> "made", dir |-> RepositoryLanguages,
                 reg |-> LanguageRegistry(RepositoryLanguages)]

\* obfuscate_code_section(source, {}, {}, {}, {})
ObfuscateSection(p) ==
  /\ run[p].pc = "source"
  /\ \E o \in CodeSection(run[p].lang, Parse(run[p].content[1].stmts),
                          NoMaps) :
       run' = [run EXCEPT ![p] =
                 [@ EXCEPT !.pc = "obfuscated",
                           !.fresh = TRUE,
                           !.maps = o.maps,
                           !.result = o.result,
                           !.plan = o.plan]]
  /\ UNCHANGED <<registry, store, now, runs, faults, clipboard, restored, kept,
                 prev>>

\* deobfuscate_text(result, word_mapping, identifier_mapping,
\* comment_mapping, string_mapping) with the mappings of the obfuscation
DeobfuscateText(p) ==
  /\ run[p].pc = "obfuscated"
  /\ restored' = Restoring(run[p].result, run[p].maps)
  /\ run' = [run EXCEPT ![p] = [@ EXCEPT !.pc = "restored"]]
  /\ UNCHANGED <<registry, store, now, runs, faults, clipboard, kept, prev>>

NextRoundTrip ==
  \/ ObfuscateSection("first")
  \/ DeobfuscateText("first")

SpecRoundTrip == InitRoundTrip /\ [][NextRoundTrip]_vars

(***************************************************************************)
(* Properties of one section obfuscated and restored (SpecRoundTrip).      *)
(***************************************************************************)
\* the nodes of src of the given types, in the order of the text
NodesOf(src, types) == SelectSeq(src.nodes, LAMBDA n : n.type \in types)

\* the source with a newline put after each of its comments
SourceWithCommentNewlines(lang, src) ==
  LET cn == NodesOf(src, get_comment_node_types(lang))
  IN  ApplyMods(src.bytes,
                [i \in 1..Len(cn) |->
                   Mod(cn[i].start_byte, cn[i].end_byte,
                       NodeText(src, cn[i]) \o <<"\n">>, FALSE)],
                0, <<>>)

\* C1: restoring the obfuscated section with the mappings the obfuscation
\* made gives back the source, byte for byte, but for a newline after each
\* comment.
C1_RoundTrip ==
  \A p \in Procs :
    run[p].pc = "restored" =>
      /\ restored.ok
      /\ restored.text =
           SourceWithCommentNewlines(run[p].lang, run[p].plan[1].src)

\* the identifiers of the section that obfuscate_composite was called for
\* (an excluded name never reaches it)
CompositeNames(p) ==
  {name \in MapKeys(run[p].maps.identifier_mapping) :
     Lower(name) \notin Range(get_exclude_patterns(run[p].lang))}

\* the declared suffixes (by position) that name ends with and is longer
\* than
MatchingSuffixes(lang, name) ==
  {i \in 1..Len(get_preserve_suffixes(lang)) :
     /\ EndsWith(name, get_preserve_suffixes(lang)[i])
     /\ Len(name) > Len(get_preserve_suffixes(lang)[i])}

Tokens(maps) ==
  MapKeys(Reversed(maps.string_mapping))
    \cup MapKeys(ReversedChanged(maps.identifier_mapping))
    \cup MapKeys(ReversedChanged(maps.word_mapping))

ProperPart(t1, t2) == Len(t1) < Len(t2) /\ Contains(t2, t1)

Occurrences(text, tok) == {i \in 1..Len(text) : OccursAt(text, tok, i)}

\* the text that deobfuscate_text works on, before and after each pass
StageTexts(p) ==
  {run[p].result, restored.after_comments, restored.after_strings,
   restored.after_identifiers}

\* C6: in every text deobfuscate_text works on, for mapped tokens t1 and t2
\* with t1 a proper part of t2, the whole-word pattern of t1 matches nowhere
\* inside an occurrence of t2, so substituting t1 leaves as many
\* occurrences of t2 as there were (t2, the longer one, cannot match inside
\* t1); and no token matches next to a word character.
C6_WholeWord ==
  \A p \in Procs :
    run[p].pc = "restored" =>
      \A text \in StageTexts(p) :
        /\ \A t1 \in Tokens(run[p].maps) : \A t2 \in Tokens(run[p].maps) :
             ProperPart(t1, t2) =>
               /\ \A i \in Occurrences(text, t2) :
                    \A j \in i..(i + Len(t2) - Len(t1)) :
                      ~MatchAt(text, t1, j)
               /\ Cardinality(Occurrences(
                      SubFrom(text, t1, <<"#">>, 1, FALSE), t2))
                    = Cardinality(Occurrences(text, t2))
        /\ \A t \in Tokens(run[p].maps) : \A i \in 1..Len(text) :
             MatchAt(text, t, i) =>
               /\ ~IsWordChar(At(text, i - 1))
               /\ ~IsWordChar(At(text, i + Len(t)))

\* a word token stands alone and inside a longer identifier token, and the
\* restoration gave back the source
C6_Witness ==
  \E p \in Procs :
    /\ run[p].pc = "restored"
    /\ restored.ok
    /\ restored.text = run[p].plan[1].src.bytes
    /\ \E t1 \in Tokens(run[p].maps) : \E t2 \in Tokens(run[p].maps) :
         /\ ProperPart(t1, t2)
         /\ Occurrences(run[p].result, t2) # {}
         /\ \E i \in 1..Len(run[p].result) : MatchAt(run[p].result, t1, i)

\* the string nodes of src that collect_mods replaces: quoted by " or ',
\* with content
QuotedNodes(lang, src) ==
  SelectSeq(NodesOf(src, get_string_node_types(lang)),
            LAMBDA n : /\ NodeText(src, n)[1] \in {"\"", "'"}
                       /\ Len(NodeText(src, n)) > 2)

\* the content of a quoted string node
Dequoted(src, n) == SubSeq(NodeText(src, n), 2, Len(NodeText(src, n)) - 1)

\* the modifications that replace exactly the range of node n
ModsOn(section, n) ==
  {i \in 1..Len(section.modifications) :
     /\ section.modifications[i].start_byte = n.start_byte
     /\ section.modifications[i].end_byte = n.end_byte
     /\ ~section.modifications[i].is_none}

RECURSIVE TokensQuotedFrom(_, _, _)
\* text from position i on, with every occurrence of a token of sm replaced
\* by its content in double quotes
TokensQuotedFrom(text, sm, i) ==
  IF i > Len(text) THEN <<>>
  ELSE IF \E k \in 1..Len(sm) : OccursAt(text, sm[k][2], i)
    THEN LET k == CHOOSE k \in 1..Len(sm) : OccursAt(text, sm[k][2], i)
         IN  <<"\"">> \o sm[k][1] \o <<"\"">>
               \o TokensQuotedFrom(text, sm, i + Len(sm[k][2]))
    ELSE <<text[i]>> \o TokensQuotedFrom(text, sm, i + 1)

\* C7: string nodes of equal content get the one token that StringMapping
\* holds, in exactly one entry, for that content; and the restoration of
\* strings puts, for every occurrence of a token, the content in double
\* quotes.
C7_StringDedup ==
  \A p \in Procs :
    run[p].pc = "restored" =>
      LET sec == run[p].plan[1]
          sm == run[p].maps.string_mapping
          qn == QuotedNodes(run[p].lang, sec.src)
      IN  /\ \A a \in 1..Len(qn) :
               /\ Cardinality({k \in 1..Len(sm) :
                                 sm[k][1] = Dequoted(sec.src, qn[a])}) = 1
               /\ \A i \in ModsOn(sec, qn[a]) :
                    sec.modifications[i].replacement
                      = MapGet(sm, Dequoted(sec.src, qn[a]))
               /\ ModsOn(sec, qn[a]) # {}
          /\ restored.ok
          /\ restored.after_strings
               = TokensQuotedFrom(restored.after_comments, sm, 1)

\* the whole-word occurrences of tok in text
WholeWords(text, tok) == {i \in 1..Len(text) : MatchAt(text, tok, i)}

\* the identifiers of the section that are not preserved, that end with a
\* declared suffix and are longer than it, and of which no sub-word before
\* the first such suffix is preserved
SuffixedNames(p) ==
  {name \in CompositeNames(p) :
     /\ ~should_preserve(run[p].lang, name)
     /\ MatchingSuffixes(run[p].lang, name) # {}
     /\ \A w \in Range(split_camelcase(
                   SubSeq(name, 1, Len(name)
                            - Len(PreservedSuffix(run[p].lang, name))))) :
          ~should_preserve(run[p].lang, w)}

\* tok(w1) + ... + tok(wn)
TokensOf(words) == Flatten([i \in 1..Len(words) |-> deterministic_hash(words[i])])

FirstPlaceholder == <<"/","*","_","_","C","M","T","0","_","_","*","/">>

RECURSIVE PlaceholdersRestoredFrom(_, _, _)
\* text from position i on, with every occurrence of a placeholder of cm
\* replaced, in one pass, by its comment and one newline
PlaceholdersRestoredFrom(text, cm, i) ==
  IF i > Len(text) THEN <<>>
  ELSE IF \E k \in 1..Len(cm) : OccursAt(text, cm[k][1], i)
    THEN LET k == CHOOSE k \in 1..Len(cm) : OccursAt(text, cm[k][1], i)
         IN  cm[k][2] \o <<"\n">>
               \o PlaceholdersRestoredFrom(text, cm, i + Len(cm[k][1]))
    ELSE <<text[i]>> \o PlaceholdersRestoredFrom(text, cm, i + 1)

\* C9: from an empty CommentMapping, the first comment node is replaced,
\* over exactly its range, by /*__CMT0__*/, which CommentMapping maps to
\* the text of the node; and the restoration of comments puts, for every
\* occurrence of a placeholder, the comment and one newline.
C9_Comment ==
  \A p \in Procs :
    run[p].pc \in {"obfuscated", "restored"} =>
      LET sec == run[p].plan[1]
          cm == run[p].maps.comment_mapping
          cn == NodesOf(sec.src, get_comment_node_types(run[p].lang))
      IN  /\ cn # <<>> =>
               /\ ModsOn(sec, cn[1]) # {}
               /\ \A i \in ModsOn(sec, cn[1]) :
                    sec.modifications[i].replacement = FirstPlaceholder
               /\ \A i \in 1..Len(sec.modifications) :
                    i \notin ModsOn(sec, cn[1]) =>
                      \/ sec.modifications[i].end_byte <= cn[1].start_byte
                      \/ sec.modifications[i].start_byte >= cn[1].end_byte
               /\ MapHas(cm, FirstPlaceholder)
               /\ MapGet(cm, FirstPlaceholder) = NodeText(sec.src, cn[1])
               /\ Contains(run[p].result, FirstPlaceholder)
          /\ run[p].pc = "restored" =>
               restored.after_comments
                 = PlaceholdersRestoredFrom(run[p].result, cm, 1)

\* a section of two comments has been obfuscated and restored
C9_Witness ==
  \E p \in Procs :
    /\ run[p].pc = "restored"
    /\ Len(run[p].maps.comment_mapping) = 2
    /\ Contains(run[p].result, FirstPlaceholder)
    /\ ~Contains(restored.after_comments, FirstPlaceholder)
    /\ Contains(restored.text,
                MapGet(run[p].maps.comment_mapping, FirstPlaceholder)
                  \o <<"\n">>)

(***************************************************************************)
(* Properties of the runs that share mapping.json (Spec).                  *)
(***************************************************************************)
\* a run that began with no mapping.json has saved, after a run of the same
\* language and content that also began with none and saved
SecondFreshRun(p) ==
  /\ run[p].pc = "saved"
  /\ run[p].fresh
  /\ prev.valid
  /\ prev.fresh
  /\ prev.saved
  /\ prev.lang = run[p].lang
  /\ prev.content = run[p].content

C3_WordMappingStable ==
  \A p \in Procs :
    run[p].pc \in {"processed", "saved", "unsaved"} =>
      kept.word \subseteq MapEntries(run[p].maps.word_mapping)

\* C4: an identifier of the preserve-word set is mapped to itself and no
\* replacement is emitted for its nodes, whatever mappings the run loaded.
C4_PreserveWord ==
  \A p \in Procs :
    run[p].pc \in {"processed", "saved", "unsaved"} =>
      \A k \in 1..Len(run[p].plan) :
        \A i \in 1..Len(run[p].plan[k].src.nodes) :
          LET n == run[p].plan[k].src.nodes[i]
              text == NodeText(run[p].plan[k].src, n)
          IN  (n.type = "identifier"
                 /\ text \in load_preserve_words(run[p].lang))
              => /\ MapHas(run[p].maps.identifier_mapping, text)
                 /\ MapGet(run[p].maps.identifier_mapping, text) = text
                 /\ ModsOn(run[p].plan[k], n) = {}

\* C10: every entry of the four mappings that a run saved is in the store
\* after every later run that has not cleared it.
C10_StoreAppendOnly ==
  \A p \in Procs :
    run[p].pc = "saved" =>
      /\ kept.word \subseteq EntriesOf(store.data).word
      /\ kept.identifier \subseteq EntriesOf(store.data).identifier
      /\ kept.comment \subseteq EntriesOf(store.data).comment
      /\ kept.string \subseteq EntriesOf(store.data).string

\* the run of p has called process_content
HasLoaded(p) == run[p].pc \in {"processed", "saved", "unsaved", "failed"}

\* C11: when mapping.json is present but is no JSON document, what
\* load_existing_mapping hands to its caller differs from what it hands for
\* an absent file, so that the caller can tell the failed load; and
\* load_mapping raises an error that is not the one of an absent file.
C11_LoadErrorSurfaced ==
  /\ \A p \in Procs :
       (HasLoaded(p) /\ run[p].at_load.st = "corrupt") =>
         run[p].loaded # load_existing_mapping(AbsentStore)
  /\ store.st = "corrupt" =>
       /\ ~load_mapping(store).ok
       /\ load_mapping(store).error # load_mapping(AbsentStore).error

\* C12: the steps of a run in which process_content raised leave
\* mapping.json and the clipboard as they were, and the run ends without
\* saving or copying; the mappings and parts it had made are dropped.
C12_AtomicRun ==
  [][\A p \in Procs :
       (run'[p] # run[p] /\ (run[p].pc = "failed" \/ run'[p].pc = "failed"))
         => /\ store' = store
            /\ clipboard' = clipboard
            /\ run[p].pc \in {"started", "failed"}
            /\ run'[p].pc \in {"failed", "idle"}]_vars

\* process_content has raised after it had added to the mappings it loaded
\* from a saved file
C12_Witness ==
  \E p \in Procs :
    /\ run[p].pc = "failed"
    /\ run[p].maps # run[p].loaded
    /\ store.st = "ok"
    /\ clipboard.kind = "source"


(***************************************************************************)
(* Properties of two runs at the same time (SpecRace).                     *)
(***************************************************************************)
\* the entries of the four maps a run holds
EntriesOfMaps(maps) ==
  [word |-> MapEntries(maps.word_mapping),
   identifier |-> MapEntries(maps.identifier_mapping),
   comment |-> MapEntries(maps.comment_mapping),
   string |-> MapEntries(maps.string_mapping)]

MapNames == {"word", "identifier", "comment", "string"}

\* p and q have both loaded before either saved, and both have saved
BothSaved(p, q) ==
  /\ p # q
  /\ run[p].pc = "saved" /\ run[q].pc = "saved"
  /\ run[p].at_now = run[q].at_now

\* q saved after p
SavedLast(p, q) == run[q].saved.created_at > run[p].saved.created_at

IsModule(m) == m.is_dir /\ ~m.underscore /\ m.adapter_file

\* the module loads without error and declares ADAPTER_CLASS and
\* LANGUAGE_NAME
LoadsAndDeclares(m) ==
  /\ IsModule(m) /\ ~m.exec_raises
  /\ m.ADAPTER_CLASS # "" /\ m.LANGUAGE_NAME # ""
  /\ m.ALIASES.iterable
  /\ \A k \in 1..Len(m.ALIASES.items) : m.ALIASES.items[k].hashable

\* the registry gives the adapter of the module at place i of the directory
Registered(i) ==
  \E k \in 1..Len(registry.reg.adapters) :
    registry.reg.adapters[k][2].config_dir = i

\* C14: in the registry made of a directory, a module whose loading raised
\* has left no adapter, and every module that loads without error and
\* declares ADAPTER_CLASS and LANGUAGE_NAME is registered under its
\* LANGUAGE_NAME with its own adapter and its aliases.
C14_RegistrationIsolated ==
  registry.pc = "made" =>
    \A i \in 1..Len(registry.dir) :
      /\ i \in registry.reg.failed => ~Registered(i)
      /\ LoadsAndDeclares(registry.dir[i]) =>
           /\ MapHas(registry.reg.adapters, registry.dir[i].LANGUAGE_NAME)
           /\ MapGet(registry.reg.adapters,
                     registry.dir[i].LANGUAGE_NAME).config_dir = i
           /\ \A k \in 1..Len(registry.dir[i].ALIASES.items) :
                /\ MapHas(registry.reg.aliases,
                          registry.dir[i].ALIASES.items[k].value)
                /\ MapGet(registry.reg.aliases,
                          registry.dir[i].ALIASES.items[k].value)
                     = registry.dir[i].LANGUAGE_NAME

(***************************************************************************)
(* Properties of the saved file and its readers (Spec).                    *)
(***************************************************************************)
\* the four forward maps of a document that load_mapping returned
ForwardMaps(data) ==
  Maps(data.word_mapping, data.identifier_mapping, data.comment_mapping,
       data.string_mapping)

\* every entry of the maps a is an entry of the maps b
EntriesWithin(a, b) ==
  \A n \in MapNames : EntriesOfMaps(a)[n] \subseteq EntriesOfMaps(b)[n]

C16_PerLanguageStore ==
  /\ \A p \in Procs :
       (HasLoaded(p) /\ run[p].at_load.st = "ok") =>
         run[p].at_load.data.language = run[p].lang
  /\ \A l1 \in Langs : \A l2 \in Langs :
       (l1 # l2 /\ store.st = "ok" /\ store.data.language = l1) =>
         get_mapping_file(l2) # get_mapping_file(l1)

\* reverse views that a store could hold in place of its own
OtherReverseViews == { <<>>, << <<<<"a">>, <<"b">>>> >> }

\* the file with other reverse views and the same four forward maps
WithReverseViews(file, rm, rsm) ==
  [file EXCEPT !.data = [@ EXCEPT !.reverse_map = rm,
                                  !.reverse_string_map = rsm]]

\* C17: the reverse views of a saved file are derived from its forward
\* maps (reverse_map from the identifier entries whose value differs from
\* the key, reverse_string_map from every string entry), and unminify.main
\* on the obfuscated clipboard does the same with the file as with a file
\* that differs from it only in the reverse views.
C17_ReverseViewsUnused ==
  (store.st = "ok" /\ clipboard.kind = "obfuscated") =>
    /\ JsonLoad(store.data).reverse_map
         = ReversedChanged(JsonLoad(store.data).identifier_mapping)
    /\ JsonLoad(store.data).reverse_string_map
         = Reversed(JsonLoad(store.data).string_mapping)
    /\ \A rm \in OtherReverseViews : \A rsm \in OtherReverseViews :
         unminify_main(WithReverseViews(store, rm, rsm), clipboard.text)
           = unminify_main(store, clipboard.text)

(***************************************************************************)
(* Properties of the list modifications of one section (SpecRoundTrip).    *)
(***************************************************************************)
\* the run has obfuscated its section
Obfuscated(p) == run[p].pc \in {"obfuscated", "restored"}

\* the sorted list modifications of the section of p
Modifications(p) == run[p].plan[1].modifications

\* C18: the replacements collected for a section are pairwise
\* non-overlapping, also when a removed import, a comment or a string has
\* comments, strings or identifiers below it, so that last_pos never moves
\* backwards while they are applied.
C18_NonOverlap ==
  \A p \in Procs :
    Obfuscated(p) =>
      /\ \A i \in 1..Len(Modifications(p)) :
           \A j \in 1..Len(Modifications(p)) :
             i < j =>
               Modifications(p)[i].end_byte <= Modifications(p)[j].start_byte
      /\ \A i \in 1..(Len(Modifications(p)) - 1) :
           Modifications(p)[i].end_byte <= Modifications(p)[i + 1].end_byte

\* the byte at place i (from 0) lies in the range of a modification
InsideRange(mods, i) ==
  \E k \in 1..Len(mods) : mods[k].start_byte <= i /\ i < mods[k].end_byte

RECURSIVE SplicedAt(_, _)
\* the replacements of the modifications that start at place i, in order
SplicedAt(mods, i) ==
  IF mods = <<>> THEN <<>>
  ELSE (IF Head(mods).start_byte = i /\ ~Head(mods).is_none
          THEN Head(mods).replacement ELSE <<>>)
         \o SplicedAt(Tail(mods), i)

RECURSIVE Frame(_, _, _)
\* from place i on: every byte outside all ranges, once and in order, and
\* every replacement where its range starts
Frame(bytes, mods, i) ==
  IF i >= Len(bytes) THEN SplicedAt(mods, i)
  ELSE SplicedAt(mods, i)
         \o (IF InsideRange(mods, i) THEN <<>> ELSE <<bytes[i + 1]>>)
         \o Frame(bytes, mods, i + 1)

\* C19: the modifications are in ascending order of start_byte, and the
\* obfuscated section is made of every source byte outside all their
\* ranges, once and in order, with each replacement spliced in where its
\* range starts: no byte of a replaced or deleted range is in it.
C19_LinearFrame ==
  \A p \in Procs :
    Obfuscated(p) =>
      /\ \A i \in 1..(Len(Modifications(p)) - 1) :
           Modifications(p)[i].start_byte
             <= Modifications(p)[i + 1].start_byte
      /\ run[p].result
           = Frame(run[p].plan[1].src.bytes, Modifications(p), 0)

\* the range of m lies inside the range of r
Within(m, r) == m.start_byte >= r.start_byte /\ m.end_byte <= r.end_byte

\* the ranges that get_preserve_import_ranges gave for the section of p
PreserveRanges(p) ==
  get_preserve_import_ranges(run[p].lang, run[p].plan[1].src)

\* C20: every byte of a range that get_preserve_import_ranges returned is
\* in the obfuscated section as it was, and no replacement of an
\* identifier, a string literal or a comment is emitted for a node inside
\* such a range.
C20_PreserveRangesProtected ==
  \A p \in Procs :
    Obfuscated(p) =>
      \A k \in 1..Len(PreserveRanges(p)) :
        /\ Contains(run[p].result,
                    NodeText(run[p].plan[1].src, PreserveRanges(p)[k]))
        /\ \A i \in 1..Len(Modifications(p)) :
             ~Within(Modifications(p)[i], PreserveRanges(p)[k])

\* the identifier nodes of the section of p that lie inside a string node
IdentifiersInStrings(p) ==
  LET src == run[p].plan[1].src
  IN  {i \in 1..Len(src.nodes) :
         /\ src.nodes[i].type = "identifier"
         /\ \E j \in 1..Len(src.nodes) :
              /\ src.nodes[j].type \in get_string_node_types(run[p].lang)
              /\ Within(src.nodes[i], src.nodes[j])}

\* C21: no replacement is emitted for an identifier node whose range lies
\* inside the range of a string node, template strings included.
C21_IdentifierNotInString ==
  \A p \in Procs :
    Obfuscated(p) =>
      \A i \in IdentifiersInStrings(p) :
        \A k \in 1..Len(Modifications(p)) :
          ~(/\ Modifications(p)[k].start_byte
                 = run[p].plan[1].src.nodes[i].start_byte
            /\ Modifications(p)[k].end_byte
                 = run[p].plan[1].src.nodes[i].end_byte)

\* an identifier inside a template string has an obfuscated name in the
\* identifier mapping, the same identifier outside the string has been
\* replaced, and the one inside stands in the output as it was
C21_Witness ==
  \E p \in Procs :
    /\ Obfuscated(p)
    /\ \E i \in IdentifiersInStrings(p) :
         LET src == run[p].plan[1].src
             text == NodeText(src, src.nodes[i])
         IN  /\ MapGet(run[p].maps.identifier_mapping, text) # text
             /\ \E j \in 1..Len(src.nodes) :
                  /\ j \notin IdentifiersInStrings(p)
                  /\ src.nodes[j].type = "identifier"
                  /\ NodeText(src, src.nodes[j]) = text
                  /\ ModsOn(run[p].plan[1], src.nodes[j]) # {}
             /\ Contains(run[p].result, <<"$", "{">> \o text \o <<"}">>)

(***************************************************************************)
(* Properties of the placeholders and tokens of the runs (Spec).           *)
(***************************************************************************)
\* the run of p has come out of process_content
Processed(p) == run[p].pc \in {"processed", "saved", "unsaved"}

\* the comment nodes of all sections of the run of p: <<section, node>>
CommentOccurrences(p) ==
  {kn \in UNION {{<<k, i>> : i \in 1..Len(run[p].plan[k].src.nodes)}
                 : k \in 1..Len(run[p].plan)} :
     run[p].plan[kn[1]].src.nodes[kn[2]].type
       \in get_comment_node_types(run[p].lang)}

\* the placeholders that the run of p assigned itself
AssignedPlaceholders(p) ==
  {run[p].maps.comment_mapping[i][1] :
     i \in (Len(run[p].loaded.comment_mapping) + 1)
            ..Len(run[p].maps.comment_mapping)}

\* the comment mapping of the run of p is the loaded one, entry for entry,
\* followed by one entry per comment occurrence, and its keys are the
\* placeholders 0 .. k-1
CommentMappingDense(p) ==
  LET cm == run[p].maps.comment_mapping
      loaded == run[p].loaded.comment_mapping
  IN  /\ Len(cm) = Len(loaded) + Cardinality(CommentOccurrences(p))
      /\ \A i \in 1..Len(loaded) : cm[i] = loaded[i]
      /\ \A i \in 1..Len(cm) : cm[i][1] = Placeholder(i - 1)

\* C22: through the runs that share the store, every comment occurrence
\* gets a placeholder of its own: the comment mapping of a run keeps the
\* entries it loaded, gains one entry per comment occurrence, has exactly
\* the keys CMT0 .. CMT(k-1), and no placeholder that a run assigns is one
\* that an earlier run of the store has saved.
C22_PlaceholderUnique ==
  \A p \in Procs :
    Processed(p) =>
      /\ CommentMappingDense(p)
      /\ \A e \in kept.comment : e[1] \notin AssignedPlaceholders(p)

(***************************************************************************)
(* Properties of the strings of one section (SpecRoundTrip).               *)
(***************************************************************************)
\* the modifications whose range is the range of the node n
ModsAt(p, n) ==
  {i \in 1..Len(Modifications(p)) :
     /\ Modifications(p)[i].start_byte = n.start_byte
     /\ Modifications(p)[i].end_byte = n.end_byte}

\* C23: a string node whose text does not begin with a back-quote has a
\* StringMapping entry for its text without the outer quote characters and
\* is replaced, over its whole range, by the token of that entry; a string
\* node whose text begins with a back-quote is left as it is.
C23_StringReplaced ==
  \A p \in Procs :
    Obfuscated(p) =>
      LET src == run[p].plan[1].src
          sn == NodesOf(src, get_string_node_types(run[p].lang))
          sm == run[p].maps.string_mapping
      IN  \A a \in 1..Len(sn) :
            IF StartsWith(NodeText(src, sn[a]), <<BACKTICK>>)
              THEN ModsAt(p, sn[a]) = {}
              ELSE /\ MapHas(sm, Dequoted(src, sn[a]))
                   /\ ModsAt(p, sn[a]) # {}
                   /\ \A i \in ModsAt(p, sn[a]) :
                        /\ ~Modifications(p)[i].is_none
                        /\ Modifications(p)[i].replacement
                             = MapGet(sm, Dequoted(src, sn[a]))

(***************************************************************************)
(* Properties of the passes of deobfuscate_text (SpecRoundTrip).           *)
(***************************************************************************)
RECURSIVE ByLengthDown(_, _)
\* the entries of m whose token has n characters, then those of n - 1
\* characters, and so on, each group in the order of m
ByLengthDown(m, n) ==
  IF n = 0 THEN <<>>
  ELSE SelectSeq(m, LAMBDA e : Len(e[1]) = n) \o ByLengthDown(m, n - 1)

\* the entries of m, the longest tokens first
LongestFirst(m) ==
  LET MaxOf(S) == IF S = {} THEN 0 ELSE CHOOSE x \in S : \A y \in S : y <= x
  IN  ByLengthDown(m, MaxOf({Len(m[i][1]) : i \in 1..Len(m)}))

\* no entry of items comes before an entry with a longer token
LengthDescending(items) ==
  \A i \in 1..Len(items) : \A j \in 1..Len(items) :
    i < j => Len(items[i][1]) >= Len(items[j][1])

\* the reverse maps that the passes of deobfuscate_text run through, in the
\* order of the passes: comments, strings, quoted identifier tokens, their
\* unquoted forms, regular identifier tokens, words
PassMaps(maps) ==
  LET ri == ReversedChanged(maps.identifier_mapping)
      quoted == SelectSeq(ri, LAMBDA e : IsQuoted(e[1]))
  IN  << maps.comment_mapping,
         Reversed(maps.string_mapping),
         quoted,
         MapFromPairs([i \in 1..Len(quoted) |->
                         <<Strip(quoted[i][1], "\""),
                           Strip(quoted[i][2], "\"")>>]),
         SelectSeq(ri, LAMBDA e : ~IsQuoted(e[1])),
         ReversedChanged(maps.word_mapping) >>

\* what a step leaves, as the record the steps hand on
StepText(text) == [ok |-> TRUE, text |-> text]

IsToken(t, prefixes, digits) ==
  /\ Len(t) >= 2 /\ Len(t) <= digits + 1
  /\ t[1] \in Range(prefixes)
  /\ \A i \in 2..Len(t) : t[i] \in Range(DigitSeq)
  /\ (t[2] = "0" => Len(t) = 2)

\* the word entries of the run of p that hold a token
WordTokenEntries(p) ==
  {e \in MapEntries(run[p].maps.word_mapping) : e[2] # e[1]}

\* C25: every word token is what deterministic_hash gives for its word, a
\* letter of the word alphabet and a number of at most four digits; every
\* string token is what obfuscate_string_literal gives for its content, a
\* letter of the string alphabet and a number of at most five digits; and
\* no word token is a string token.
C25_TokenAlphabets ==
  \A p \in Procs :
    Obfuscated(p) =>
      /\ \A e \in WordTokenEntries(p) :
           /\ e[2] = deterministic_hash(e[1])
           /\ IsToken(e[2], WordPrefixes, 4)
      /\ \A e \in MapEntries(run[p].maps.string_mapping) :
           /\ e[2] = obfuscate_string_literal(e[1])
           /\ IsToken(e[2], StringPrefixes, 5)
      /\ \A w \in WordTokenEntries(p) :
           \A e \in MapEntries(run[p].maps.string_mapping) : w[2] # e[2]

(***************************************************************************)
(* Properties of the end of a run (Spec).                                  *)
(***************************************************************************)
\* C26: whenever a run hands its obfuscated output to the clipboard, the
\* store holds the mappings that produced it.
C26_OutputAfterPersist ==
  [][\A p \in Procs :
       (/\ run[p].pc \in {"saved", "unsaved"}
        /\ run'[p].pc = "idle"
        /\ clipboard'.kind = "obfuscated")
         => /\ store.st = "ok"
            /\ load_existing_mapping(store) = run[p].maps]_vars

(***************************************************************************)
(* Properties of the string tokens in the result (SpecRoundTrip).          *)
(***************************************************************************)
\* C27: every occurrence, in the obfuscated result, of a token written in
\* place of a quoted string literal has no word character next to it on
\* either side, so that it is a whole-word occurrence.
C27_StringTokensWholeWords ==
  \A p \in Procs :
    Obfuscated(p) =>
      LET sec == run[p].plan[1]
          qn == QuotedNodes(run[p].lang, sec.src)
      IN  \A a \in 1..Len(qn) :
            \A i \in ModsOn(sec, qn[a]) :
              Occurrences(run[p].result, sec.modifications[i].replacement)
                \subseteq
                  WholeWords(run[p].result, sec.modifications[i].replacement)

=============================================================================
